---------------------------- MODULE Spec2Model ----------------------------
(***************************************************************************)
(* A model of dbt's relation cache (core/dbt/adapters/cache.py) and of one *)
(* attempt of a node runner (core/dbt/node_runners.py).                    *)
(*                                                                         *)
(* The cache is a dict from _ReferenceKey to _CachedRelation objects; each *)
(* object holds its descriptor (inner) and a dict referenced_by from keys  *)
(* to other _CachedRelation OBJECTS.  The code follows object references   *)
(* (collect_consequences) as well as dict keys (release_references,        *)
(* rename_key), so the model keeps a heap of objects with identities.      *)
(***************************************************************************)
EXTENDS Naturals, FiniteSets, Sequences, TLC

-----------------------------------------------------------------------------
(* Bounds and universes of the model *)

\* Size of the object heap: at most MaxObjs _CachedRelation objects are
\* referenced at once (registered ones plus ones kept alive by a referenced_by
\* entry).
MaxObjs == 4

\* Number of add / add_link / drop / rename calls in one run of Spec.
MaxOps == 6

\* Number of calls in one run of SpecApi, which makes every call of the cache.
MaxApiOps == 5

\* Number of add / add_link calls that fill the cache before the workers of
\* SpecConc start.
MaxSetup == 3

\* How many calls fill the cache before the threads of the lock model start.
MaxLockSetup == 2

\* The tasks of a run of the scheduler.
MaxTasks == 3

\* The attempts of model runners on one cache.
MaxAttempts == 2

\* Number of calls in one run of the adapter on the cache.
MaxAdapterOps == 4

\* The largest count of a freshness threshold (Time.count), beside the 10
\* and 18 hours of the documented example.
MaxCount == 2

\* The most rows a test's query returns.
MaxRows == 2

None == "None"

\* The BaseRelation descriptors callers pass in: three distinct identities in
\* two schemas, and one spelling of db.s.a in another letter case.
Rel(d, s, i) == [database |-> d, schema |-> s, identifier |-> i]

BaseRelations ==
    { Rel("db", "s", "a"), Rel("db", "s", "b"), Rel("db", "t", "a"),
      Rel("DB", "S", "A") }

\* The (database, schema) arguments of the schema operations, written as a
\* descriptor without identifier.
SchemaArgs == { Rel("db", "s", None), Rel("db", "t", None), Rel("DB", "S", None) }

NoRel == Rel(None, None, None)

\* One spelling per identity, for the arguments a call only turns into a key
\* (drop's relation, rename's old, add_link's pair): their letter case never
\* reaches the state.
KeyRelations == { Rel("db", "s", "a"), Rel("db", "s", "b"), Rel("db", "t", "a") }

\* Exceptions an operation can end with.
InternalException == "InternalException"   \* raise_cache_inconsistent
RecursionError    == "RecursionError"      \* Python's recursion limit
KeyError          == "KeyError"            \* del of a missing dict key

-----------------------------------------------------------------------------
(* Keys *)

\* str.lower() on the names of the model; None stays None.
_lower(value) ==
    IF value = None THEN None
    ELSE CASE value = "DB" -> "db"
           [] value = "S"  -> "s"
           [] value = "T"  -> "t"
           [] value = "A"  -> "a"
           [] value = "B"  -> "b"
           [] OTHER        -> value

\* A key made of the names as they were given.
_make_key_as_given(relation) == relation

_make_key(relation) ==
    [database   |-> _lower(relation.database),
     schema     |-> _lower(relation.schema),
     identifier |-> _lower(relation.identifier)]

Keys == { _make_key(r) : r \in BaseRelations }

-----------------------------------------------------------------------------
(* Dicts as functions *)

EmptyDict == [x \in {} |-> None]

Range(f) == { f[x] : x \in DOMAIN f }

DictSet(f, k, v) == [x \in DOMAIN f \cup {k} |-> IF x = k THEN v ELSE f[x]]

DictPop(f, ks) == [x \in DOMAIN f \ ks |-> f[x]]

-----------------------------------------------------------------------------
(* The cache as a value: c.relations : key -> object id,                   *)
(* c.objs : object id -> [inner, referenced_by : key -> object id],        *)
(* c.schemas : set of lower-cased (database, schema) pairs.                *)

EmptyCache == [relations |-> EmptyDict, objs |-> EmptyDict, schemas |-> {}]

\* An operation's outcome: the cache it leaves, the exception it raised (or
\* None) and its return value.
Return(c, v)  == [c |-> c, exc |-> None, ret |-> v]
Ok(c)         == Return(c, None)
Raise(c, exc) == [c |-> c, exc |-> exc, ret |-> None]

\* _CachedRelation.key(): the key of the object's current descriptor.
key(objs, id) == _make_key(objs[id].inner)

\* Objects referenced from the cache, directly or through referenced_by.
RECURSIVE Referenced(_, _)
Referenced(objs, S) ==
    LET N == S \cup UNION { Range(objs[i].referenced_by) : i \in S }
    IN  IF N = S THEN S ELSE Referenced(objs, N)

\* Python frees an object once nothing references it.
Collect(c) ==
    LET live == Referenced(c.objs, Range(c.relations))
    IN  [c EXCEPT !.objs = [i \in live |-> c.objs[i]]]

FreeIds(c) == (1..MaxObjs) \ DOMAIN c.objs

\* The address of a new object is any free one; the model takes a slot
\* named after the key when it is free, else the lowest free one.
Slot(k) ==
    CASE k = Rel("db", "s", "a") -> 1
      [] k = Rel("db", "s", "b") -> 2
      [] OTHER                   -> 3

NewId(c, k) ==
    IF Slot(k) \in FreeIds(c) THEN Slot(k)
    ELSE CHOOSE i \in FreeIds(c) : \A j \in FreeIds(c) : i <= j

-----------------------------------------------------------------------------
(* Schema set *)

add_schema(c, database, schema) ==
    [c EXCEPT !.schemas = @ \cup { <<_lower(database), _lower(schema)>> }]

remove_schema(c, database, schema) ==
    [c EXCEPT !.schemas = @ \ { <<_lower(database), _lower(schema)>> }]

update_schemas(c, schemas) ==
    [c EXCEPT !.schemas = @ \cup { <<_lower(s.database), _lower(s.schema)>> : s \in schemas }]

contains(c, db, schema) == <<_lower(db), _lower(schema)>> \in c.schemas

-----------------------------------------------------------------------------
(* add *)

\* _CachedRelation(inner)
CachedRelation(inner) == [inner |-> inner, referenced_by |-> EmptyDict]

\* relations[key] = relation: the last write wins.
relations_assign(c, inner) ==
    LET k == _make_key(inner)
    IN  IF k \in DOMAIN c.relations
        THEN [c EXCEPT !.objs[c.relations[k]] = CachedRelation(inner)]
        ELSE LET id == NewId(c, k)
             IN  [c EXCEPT !.relations = DictSet(@, k, id),
                           !.objs = DictSet(@, id, CachedRelation(inner))]

\* relations.setdefault(key, relation)
relations_setdefault(c, inner) ==
    LET k == _make_key(inner)
    IN  IF k \in DOMAIN c.relations
        THEN c
        ELSE LET id == NewId(c, k)
             IN  [c EXCEPT !.relations = DictSet(@, k, id),
                           !.objs = DictSet(@, id, CachedRelation(inner))]

\* The add_schema call of _setdefault: relation.database and relation.schema
\* of a _CachedRelation are lower-cased properties; add_schema lower-cases
\* again.
setdefault_add_schema(c, inner) ==
    add_schema(c, _lower(inner.database), _lower(inner.schema))

_setdefault(c, inner) == relations_setdefault(setdefault_add_schema(c, inner), inner)

add(c, relation) == { Ok(_setdefault(c, relation)) }

-----------------------------------------------------------------------------
(* add_link *)

\* referenced.add_reference(dependent): referenced_by[referrer.key()] = referrer
add_reference(c, self, referrer) ==
    [c EXCEPT !.objs[self].referenced_by = DictSet(@, key(c.objs, referrer), referrer)]

\* An _add_link that registers nothing when the dependent is missing.
_add_link_lenient(c, referenced_key, dependent_key) ==
    IF referenced_key \notin DOMAIN c.relations
    THEN { Raise(c, InternalException) }
    ELSE IF dependent_key \notin DOMAIN c.relations
    THEN { Ok(c) }
    ELSE { Ok(add_reference(c, c.relations[referenced_key],
                            c.relations[dependent_key])) }

_add_link(c, referenced_key, dependent_key) ==
    IF referenced_key \notin DOMAIN c.relations
    THEN { Raise(c, InternalException) }
    ELSE IF dependent_key \notin DOMAIN c.relations
    THEN { Raise(c, InternalException) }
    ELSE { Ok(add_reference(c, c.relations[referenced_key],
                            c.relations[dependent_key])) }

\* The test the code makes before it takes the lock: is the referenced
\* relation's schema cached?
add_link_schema_cached(c, referenced) ==
    LET ref == _make_key(referenced) IN contains(c, ref.database, ref.schema)

\* An add_link that does not look at the known schemas.
add_link_unchecked(c, referenced, dependent) ==
    _add_link(c, _make_key(referenced), _make_key(dependent))

add_link(c, referenced, dependent) ==
    IF ~add_link_schema_cached(c, referenced)
    THEN { Ok(c) }
    ELSE _add_link(c, _make_key(referenced), _make_key(dependent))

-----------------------------------------------------------------------------
(* drop *)

\* Python raises RecursionError when the call stack exceeds its limit.  A
\* chain of distinct objects is at most MaxObjs long, so the recursion goes
\* deeper than that exactly when it runs round a cycle, and then it runs
\* past any limit.
RecursionLimit == MaxObjs

\* A collection that stops at the direct referrers.
collect_consequences_direct(objs, self, depth) ==
    [overflow |-> FALSE,
     keys     |-> { key(objs, self) }
                    \cup { key(objs, r) : r \in Range(objs[self].referenced_by) }]

\* collect_consequences, with the depth of the call: [overflow, keys].
RECURSIVE collect_consequences(_, _, _)
collect_consequences(objs, self, depth) ==
    IF depth > RecursionLimit
    THEN [overflow |-> TRUE, keys |-> {}]
    ELSE LET subs == { collect_consequences(objs, r, depth + 1) :
                         r \in Range(objs[self].referenced_by) }
         IN  [overflow |-> \E s \in subs : s.overflow,
              keys     |-> { key(objs, self) } \cup UNION { s.keys : s \in subs }]

release_references(obj, keys) ==
    [obj EXCEPT !.referenced_by = DictPop(@, keys)]

\* `for key in keys: del self.relations[key]` walks a set in no fixed order
\* and raises KeyError at the first key that is not registered, having
\* deleted some of the others; the release loop then does not run.
_remove_refs(c, keys) ==
    IF keys \subseteq DOMAIN c.relations
    THEN LET rels == DictPop(c.relations, keys)
         IN  { Ok([c EXCEPT !.relations = rels,
                            !.objs = [i \in DOMAIN c.objs |->
                                        IF i \in Range(rels)
                                        THEN release_references(c.objs[i], keys)
                                        ELSE c.objs[i]]]) }
    ELSE { Raise([c EXCEPT !.relations = DictPop(@, D)], KeyError) :
             D \in SUBSET (keys \cap DOMAIN c.relations) }

\* A drop that insists on the relation being registered.
_drop_cascade_relation_strict(c, dropped) ==
    IF dropped \notin DOMAIN c.relations
    THEN { Raise(c, KeyError) }
    ELSE LET consequences == collect_consequences(c.objs, c.relations[dropped], 0)
         IN  IF consequences.overflow
             THEN { Raise(c, RecursionError) }
             ELSE _remove_refs(c, consequences.keys)

_drop_cascade_relation(c, dropped) ==
    IF dropped \notin DOMAIN c.relations
    THEN { Ok(c) }
    ELSE LET consequences == collect_consequences(c.objs, c.relations[dropped], 0)
         IN  IF consequences.overflow
             THEN { Raise(c, RecursionError) }
             ELSE _remove_refs(c, consequences.keys)

drop(c, relation) == _drop_cascade_relation(c, _make_key(relation))

-----------------------------------------------------------------------------
(* rename *)

\* _CachedRelation.rename: the object takes the new descriptor's names.
rename_inner(obj, new) == [obj EXCEPT !.inner = new]

\* _CachedRelation.rename_key, past its check of new_key.
rename_key(obj, old_key, new_key) ==
    IF old_key \notin DOMAIN obj.referenced_by
    THEN obj
    ELSE [obj EXCEPT !.referenced_by =
            DictSet(DictPop(@, {old_key}), new_key, obj.referenced_by[old_key])]

\* The schema fixup that ends _rename_relation.
rename_fixup_remove(c, old_key) == remove_schema(c, old_key.database, old_key.schema)

rename_fixup_add(c, new_key) == add_schema(c, new_key.database, new_key.schema)

\* A rename that registers a new entry for the new name in place of moving
\* the old one.
_rename_relation_move_fresh(c, old_key, new) ==
    { Ok(relations_setdefault([c EXCEPT !.relations = DictPop(@, {old_key})], new)) }

\* _rename_relation up to and including `self.relations[new_key] = relation`.
\* The loop visits the registered objects in dict order; rename_key raises on
\* an object that already holds new_key, after some of the others were
\* rewritten.
_rename_relation_move(c, old_key, new) ==
    LET id        == c.relations[old_key]
        new_key   == _make_key(new)
        rels      == DictPop(c.relations, {old_key})
        objs1     == [c.objs EXCEPT ![id] = rename_inner(@, new)]
        referrers == { i \in Range(rels) : old_key \in DOMAIN objs1[i].referenced_by }
        raisers   == { i \in referrers : new_key \in DOMAIN objs1[i].referenced_by }
        rekeyed(P) == [i \in DOMAIN objs1 |->
                         IF i \in P THEN rename_key(objs1[i], old_key, new_key)
                                    ELSE objs1[i]]
    IN  IF raisers = {}
        THEN { Ok([c EXCEPT !.relations = DictSet(rels, new_key, id),
                            !.objs = rekeyed(referrers)]) }
        ELSE { Raise([c EXCEPT !.relations = rels, !.objs = rekeyed(P)],
                     InternalException) :
                 P \in SUBSET (referrers \ raisers) }

_rename_relation(c, old_key, new) ==
    { IF o.exc = None
      THEN Ok(rename_fixup_add(rename_fixup_remove(o.c, old_key), _make_key(new)))
      ELSE o :
      o \in _rename_relation_move(c, old_key, new) }

\* A check that looks for old before it looks for new.
_check_rename_constraints_old_first(c, old_key, new_key) ==
    IF old_key \notin DOMAIN c.relations THEN "False"
    ELSE IF new_key \in DOMAIN c.relations THEN "raise"
    ELSE "True"

\* "raise", or the boolean the code returns.
_check_rename_constraints(c, old_key, new_key) ==
    IF new_key \in DOMAIN c.relations THEN "raise"
    ELSE IF old_key \notin DOMAIN c.relations THEN "False"
    ELSE "True"

\* A rename that only logs when old is not registered.
rename_ignore_absent(c, old, new) ==
    LET old_key == _make_key(old)
        new_key == _make_key(new)
        check   == _check_rename_constraints(c, old_key, new_key)
    IN  IF check = "raise" THEN { Raise(c, InternalException) }
        ELSE IF check = "True" THEN _rename_relation(c, old_key, new)
        ELSE { Ok(c) }

rename(c, old, new) ==
    LET old_key == _make_key(old)
        new_key == _make_key(new)
        check   == _check_rename_constraints(c, old_key, new_key)
    IN  IF check = "raise" THEN { Raise(c, InternalException) }
        ELSE IF check = "True" THEN _rename_relation(c, old_key, new)
        ELSE { Ok(_setdefault(c, new)) }

-----------------------------------------------------------------------------
(* reads and clear *)

\* A lookup that compares the names as they were given.
get_relations_as_given(c, database, schema) ==
    { Return(c, { c.objs[i].inner : i \in
                    { j \in Range(c.relations) :
                        /\ _lower(c.objs[j].inner.schema) = schema
                        /\ _lower(c.objs[j].inner.database) = database } }) }

\* The descriptors registered under (database, schema); a list in the code,
\* in dict order.
get_relations(c, database, schema) ==
    LET results == { c.objs[i].inner : i \in
                       { j \in Range(c.relations) :
                           /\ _lower(c.objs[j].inner.schema) = _lower(_lower(schema))
                           /\ _lower(c.objs[j].inner.database) = _lower(database) } }
    IN  IF NoRel \in results
        THEN { Raise(c, InternalException) }
        ELSE { Return(c, results) }

clear(c) == EmptyCache

-----------------------------------------------------------------------------
(* The node runner (core/dbt/node_runners.py): one attempt of one task.    *)
(*                                                                         *)
(* A runner r is a record: its class (kind), whether its node is an        *)
(* ephemeral model, what each phase of the attempt does ("ok", or the      *)
(* class of the exception it raises), and the skip flag and skip cause     *)
(* that do_skip sets.  A call                                              *)
(* ends as [raised, result, trace]: the class of the exception that leaves *)
(* it or None, the result it returns, and the calls it made in order.      *)

\* The runner classes: CompileRunner, ModelRunner (build), TestRunner,
\* FreshnessRunner, SeedRunner and SnapshotRunner.
RunnerKinds == { "compile", "model", "test", "freshness", "seed", "snapshot" }

\* (CompilationException, RuntimeException) of handle_exception.
CatchableErrors == { "CompilationException", "RuntimeException" }

\* "Exception" is any other class derived from Exception; KeyboardInterrupt
\* derives from BaseException only.
ExceptionClasses ==
    CatchableErrors \cup { "InternalException", "Exception", "KeyboardInterrupt" }

PhaseOutcomes == { "ok" } \cup ExceptionClasses

\* isinstance(e, Exception): what `except Exception` catches.
IsException(cls) == cls \in ExceptionClasses \ { "KeyboardInterrupt" }

\* str(e) of the exception a phase raised.
StrOf(phase) ==
    CASE phase = "acquire" -> "acquire failed"
      [] phase = "compile" -> "compile failed"
      [] phase = "execute" -> "execute failed"
      [] phase = "release" -> "release failed"

\* No result: Python's None where a result is expected.
NoResult == [kind |-> None, node |-> None, error |-> None, status |-> None,
             skip |-> FALSE, fail |-> FALSE, warn |-> FALSE, timing |-> <<>>]

\* fail and warn are None unless given; None reads as false and is FALSE
\* here.
RunModelResult(node, error, status, skip, timing) ==
    [kind |-> "result", node |-> node, error |-> error, status |-> status,
     skip |-> skip, fail |-> FALSE, warn |-> FALSE, timing |-> timing]

\* PartialResult has no skip, fail or warn field.
PartialResult(node, error, status, timing) ==
    [kind |-> "partial", node |-> node, error |-> error, status |-> status,
     skip |-> FALSE, fail |-> FALSE, warn |-> FALSE, timing |-> timing]

\* status.lower()
Lower(status) == IF status = "ERROR" THEN "error" ELSE status

_build_run_result(node, error, status, timing_info, skip) ==
    RunModelResult(node, error, status, skip, timing_info)

FreshnessRunner_build_run_result(node, error, status, timing_info, skip) ==
    PartialResult(node, error,
                  IF status # None THEN Lower(status) ELSE status,
                  timing_info)

\* self._build_run_result(...): the method of the runner's class.
self_build_run_result(self, node, error, status, timing_info, skip) ==
    IF self.kind = "freshness"
    THEN FreshnessRunner_build_run_result(node, error, status, timing_info,
                                          skip)
    ELSE _build_run_result(node, error, status, timing_info, skip)

error_result(self, node, error, timing_info) ==
    self_build_run_result(self, node, error, "ERROR", timing_info, FALSE)

ephemeral_result(self, node, timing_info) ==
    self_build_run_result(self, node, None, None, timing_info, FALSE)

\* from_run_result that passes neither fail nor warn on.
from_run_result_without_flags(self, result, timing_info) ==
    self_build_run_result(self, result.node, result.error, result.status,
                          timing_info, result.skip)

from_run_result(self, result, timing_info) ==
    [self_build_run_result(self, result.node, result.error, result.status,
                           timing_info, result.skip)
       EXCEPT !.fail = result.fail, !.warn = result.warn]

\* FreshnessRunner.from_run_result: the result itself, its timing extended.
FreshnessRunner_from_run_result(self, result, timing_info) ==
    [result EXCEPT !.timing = @ \o timing_info]

self_from_run_result(self, result, timing_info) ==
    IF self.kind = "freshness"
    THEN FreshnessRunner_from_run_result(self, result, timing_info)
    ELSE from_run_result(self, result, timing_info)

\* What execute returns when it raises nothing: RunModelResult(node, status).
execute_result == RunModelResult("executed", None, "OK", FALSE, <<>>)

\* Freshness thresholds (core/dbt/contracts/graph/unparsed.py).  A Time is a
\* count of minutes, hours or days; NoTime stands for a threshold that is
\* None.  Ages are whole seconds.
TimePeriods == { "minute", "hour", "day" }

Time(count, period) == [count |-> count, period |-> period]

NoTime == Time(0, None)

Times ==
    { Time(c, p) : c \in 0..MaxCount, p \in TimePeriods }
      \cup { Time(10, "hour"), Time(18, "hour") }

\* timedelta(**{period.plural(): count}).total_seconds()
total_seconds(count, period) ==
    CASE period = "minute" -> count * 60
      [] period = "hour"   -> count * 3600
      [] period = "day"    -> count * 86400

\* A Time that counts as exceeded as soon as the age reaches it.
Time_exceeded_when_reached(self, actual_age) ==
    actual_age >= total_seconds(self.count, self.period)

\* Time.exceeded
Time_exceeded(self, actual_age) ==
    actual_age > total_seconds(self.count, self.period)

\* FreshnessThreshold(warn_after, error_after)
FreshnessThreshold(warn_after, error_after) ==
    [warn_after |-> warn_after, error_after |-> error_after]

\* FreshnessThreshold.status: a Time object is true, None is not.
FreshnessThreshold_status(self, age) ==
    IF self.error_after # NoTime /\ Time_exceeded(self.error_after, age)
    THEN "error"
    ELSE IF self.warn_after # NoTime /\ Time_exceeded(self.warn_after, age)
    THEN "warn"
    ELSE "pass"

\* The ages calculate_freshness returns: none, each threshold's duration,
\* a second less and a second more, and the 2 and 12 hours of the example.
Ages ==
    { 0, 7200, 43200 }
      \cup UNION { { total_seconds(t.count, t.period) - 1,
                     total_seconds(t.count, t.period),
                     total_seconds(t.count, t.period) + 1 } :
                   t \in { u \in Times : u.count > 0 } }

\* What FreshnessRunner.execute meets: the source's loaded_at_field (a
\* column name or None), its thresholds, what calculate_freshness does and
\* the age it returns.
Source(loaded_at_field, freshness, calculate, age) ==
    [loaded_at_field |-> loaded_at_field, freshness |-> freshness,
     calculate |-> calculate, age |-> age]

NoSource == Source("loaded_at", FreshnessThreshold(NoTime, NoTime), "ok", 0)

\* FreshnessRunner.execute: [raised, result], the result being
\* SourceFreshnessResult(node=compiled_node, status=status, ...).
FreshnessRunner_execute(self) ==
    LET compiled_node == self.source
    IN  IF compiled_node.loaded_at_field = None
        THEN [raised |-> "InternalException", result |-> NoResult]
        ELSE IF compiled_node.calculate # "ok"
        THEN [raised |-> compiled_node.calculate, result |-> NoResult]
        ELSE [raised |-> None,
              result |-> [kind |-> "freshness", node |-> "compiled",
                          error |-> None,
                          status |-> FreshnessThreshold_status(
                                        compiled_node.freshness,
                                        compiled_node.age),
                          skip |-> FALSE, fail |-> FALSE, warn |-> FALSE,
                          timing |-> <<>>]]

FreshnessRunner_execute_result(self) == FreshnessRunner_execute(self).result

\* What TestRunner.execute meets: what adapter.execute does with the test's
\* query, how many rows the table has, the first cell of its first row,
\* test.config.severity and dbt.flags.WARN_ERROR.  Statuses are strings in
\* this model, so the count of failures is kept as its numeral.
FailedRows == { "0", "1", "2" }

\* insensitive_patterns('warn', 'error')
Severities == { "error", "warn", "ERROR", "Warn" }

Test(query, rows, failed_rows, severity, warn_error) ==
    [query |-> query, rows |-> rows, failed_rows |-> failed_rows,
     config_severity |-> severity, warn_error |-> warn_error]

NoTest == Test("ok", 1, "0", "error", FALSE)

\* A severity compared as it was written.
upper_as_given(severity) == severity

\* str.upper() on the severities of the model.
upper(severity) ==
    CASE severity \in { "error", "ERROR" } -> "ERROR"
      [] severity \in { "warn", "Warn" }   -> "WARN"

\* TestRunner.execute_test: [raised, value]; RuntimeError is a plain
\* Exception.
execute_test(test) ==
    IF test.query # "ok"
    THEN [raised |-> test.query, value |-> None]
    ELSE IF test.rows > 1
    THEN [raised |-> "Exception", value |-> None]
    ELSE [raised |-> None, value |-> test.failed_rows]

\* TestRunner.execute: [raised, result]
TestRunner_execute(self) ==
    LET test        == self.test
        failed_rows == execute_test(test)
        severity    == upper(test.config_severity)
        result      == RunModelResult("executed", None, failed_rows.value,
                                      FALSE, <<>>)
    IN  IF failed_rows.raised # None
        THEN [raised |-> failed_rows.raised, result |-> NoResult]
        ELSE IF failed_rows.value = "0"
        THEN [raised |-> None, result |-> result]
        ELSE IF severity = "ERROR" \/ test.warn_error
        THEN [raised |-> None, result |-> [result EXCEPT !.fail = TRUE]]
        ELSE [raised |-> None, result |-> [result EXCEPT !.warn = TRUE]]

TestRunner_execute_result(self) == TestRunner_execute(self).result

self_execute_result(self) ==
    IF self.kind = "freshness" THEN FreshnessRunner_execute_result(self)
    ELSE IF self.kind = "test" THEN TestRunner_execute_result(self)
    ELSE execute_result

\* compile_and_execute: [raised, text, result, node, timing, trace], node and
\* timing being ctx.node and ctx.timing as the call leaves them.
compile_and_execute(r) ==
    LET left(raised, phase, result, node, timing, trace) ==
          [raised |-> raised,
           text   |-> IF raised = None THEN None ELSE StrOf(phase),
           result |-> result, node |-> node, timing |-> timing, trace |-> trace]
    IN  IF r.acquire # "ok"
        THEN left(r.acquire, "acquire", NoResult, "node", <<>>,
                  <<"acquire_connection">>)
        ELSE IF r.compile # "ok"
        THEN left(r.compile, "compile", NoResult, "node", <<>>,
                  <<"acquire_connection", "compile">>)
        ELSE IF r.ephemeral
        THEN left(None, "compile", NoResult, "compiled", <<"compile">>,
                  <<"acquire_connection", "compile">>)
        ELSE IF r.execute # "ok"
        THEN left(r.execute, "execute", NoResult, "compiled", <<"compile">>,
                  <<"acquire_connection", "compile", "execute">>)
        ELSE left(None, "execute", self_execute_result(r),
                  self_execute_result(r).node,
                  <<"compile", "execute">>,
                  <<"acquire_connection", "compile", "execute">>)

\* The three handlers log in their own ways and return str(e).
_handle_catchable_exception(text) == text

_handle_internal_exception(text) == text

_handle_generic_exception(text) == text

handle_exception(cls, text) ==
    IF cls \in CatchableErrors THEN _handle_catchable_exception(text)
    ELSE IF cls = "InternalException" THEN _handle_internal_exception(text)
    ELSE _handle_generic_exception(text)

\* _safe_release_connection: the string of an Exception that
\* release_connection raised, or None; any other exception leaves it.
_safe_release_connection(r) ==
    IF r.release = "ok" THEN [exc_str |-> None, raised |-> None]
    ELSE IF IsException(r.release)
    THEN [exc_str |-> StrOf("release"), raised |-> None]
    ELSE [exc_str |-> None, raised |-> r.release]

\* safe_run without its `finally`: the connection is released only when
\* compile_and_execute returned, and an exception caught by the except
\* clause becomes the error of the result.
safe_run_no_finally(r) ==
    LET ce == compile_and_execute(r)
    IN  IF ce.raised = None
        THEN LET rel   == _safe_release_connection(r)
                 trace == ce.trace \o <<"release_connection">>
                 error == IF rel.exc_str # None /\ ce.result # NoResult
                          THEN rel.exc_str ELSE None
             IN  IF rel.raised # None
                 THEN [raised |-> rel.raised, result |-> NoResult,
                       trace |-> trace]
                 ELSE [raised |-> None,
                       result |-> IF error # None
                                  THEN error_result(r, ce.node, error, <<>>)
                                  ELSE IF ce.result # NoResult
                                  THEN self_from_run_result(r, ce.result,
                                                            ce.timing)
                                  ELSE ephemeral_result(r, ce.node,
                                                        ce.timing),
                       trace  |-> trace]
        ELSE IF IsException(ce.raised)
        THEN [raised |-> None,
              result |-> error_result(r, ce.node,
                                      handle_exception(ce.raised, ce.text),
                                      <<>>),
              trace  |-> ce.trace]
        ELSE [raised |-> ce.raised, result |-> NoResult, trace |-> ce.trace]

\* safe_run.  In the finally block `result.error` is evaluated when exc_str
\* is not None; with result None that raises AttributeError.  An exception
\* the except clause did not catch leaves after the finally block, unless
\* the block raised one of its own.
safe_run(r) ==
    LET ce      == compile_and_execute(r)
        caught  == ce.raised # None /\ IsException(ce.raised)
        handled == IF caught THEN handle_exception(ce.raised, ce.text) ELSE None
        pending == IF ce.raised # None /\ ~caught THEN ce.raised ELSE None
        rel     == _safe_release_connection(r)
        trace   == ce.trace \o <<"release_connection">>
        raise(cls) == [raised |-> cls, result |-> NoResult, trace |-> trace]
    IN  IF rel.raised # None THEN raise(rel.raised)
        ELSE IF rel.exc_str # None /\ ce.result = NoResult
        THEN raise("AttributeError")
        ELSE IF pending # None THEN raise(pending)
        ELSE LET error == IF rel.exc_str # None /\ ce.result.error = None
                          THEN rel.exc_str ELSE handled
             IN  [raised |-> None,
                  result |-> IF error # None
                             THEN error_result(r, ce.node, error, <<>>)
                             ELSE IF ce.result # NoResult
                             THEN self_from_run_result(r, ce.result, ce.timing)
                             ELSE ephemeral_result(r, ce.node, ce.timing),
                  trace  |-> trace]

\* The skip causes: no cause, a result without a node, the result of an
\* ephemeral model, the result of another node.
SkipCauses == { None, "no_node", "ephemeral", "not_ephemeral" }

\* Any cause that has a node counts, ephemeral or not.
_skip_caused_by_any_failure(r) ==
    ~(r.skip_cause = None \/ r.skip_cause = "no_node")

_skip_caused_by_ephemeral_failure(r) ==
    IF r.skip_cause = None \/ r.skip_cause = "no_node" THEN FALSE
    ELSE r.skip_cause = "ephemeral"

on_skip(r) ==
    LET error == IF ~r.ephemeral /\ _skip_caused_by_ephemeral_failure(r)
                 THEN "Compilation Error, caused by ephemeral model"
                 ELSE None
    IN  [raised |-> None,
         result |-> RunModelResult("node", error, None, TRUE, <<>>),
         trace  |-> <<>>]

\* FreshnessRunner.on_skip raises RuntimeException.
FreshnessRunner_on_skip(r) ==
    [raised |-> "RuntimeException", result |-> NoResult, trace |-> <<>>]

\* self.on_skip(): the method of the runner's class.
self_on_skip(r) ==
    IF r.kind = "freshness" THEN FreshnessRunner_on_skip(r) ELSE on_skip(r)

\* do_skip that stores the cause and leaves self.skip alone.
do_skip_cause_only(r, cause) == [r EXCEPT !.skip_cause = cause]

\* do_skip that forgets the cause.
do_skip_without_cause(r, cause) == [r EXCEPT !.skip = TRUE]

do_skip(r, cause) == [r EXCEPT !.skip = TRUE, !.skip_cause = cause]

\* run_with_hooks without the test of self.skip.
run_with_hooks_ignoring_skip(r) ==
    LET before == IF r.ephemeral THEN <<>> ELSE <<"before_execute">>
        run    == safe_run(r)
        after  == IF r.ephemeral \/ run.raised # None
                  THEN <<>> ELSE <<"after_execute">>
    IN  [run EXCEPT !.trace = before \o @ \o after]

run_with_hooks(r) ==
    IF r.skip THEN self_on_skip(r)
    ELSE LET before == IF r.ephemeral THEN <<>> ELSE <<"before_execute">>
             run    == safe_run(r)
             after  == IF r.ephemeral \/ run.raised # None
                       THEN <<>> ELSE <<"after_execute">>
         IN  [run EXCEPT !.trace = before \o @ \o after]

\* ModelRunner.execute.  What it meets is a record m: whether the manifest
\* has a materialization macro for the model, whether the context has a
\* 'config', what the adapter's hooks and the macro do, what the macro
\* returns, and whether it stored the results 'main' and 'agate_table'
\* that _build_run_model_result loads.

\* The relations a materialization returns, and an object that is not a
\* BaseRelation.
MaterializedRelations == { Rel("db", "s", "a"), Rel("db", "t", "a") }

NotARelation == NoRel

\* Relation.create_from(config, model): the relation of the model itself.
ModelRelation == Rel("db", "s", "a")

\* The lists a materialization puts under 'relations': of relations only,
\* or with an object that is not one, before or after a relation.
ReturnedLists ==
    { <<>>, <<NotARelation>> }
    \cup { <<x>> : x \in MaterializedRelations }
    \cup { <<x, y>> : x, y \in MaterializedRelations }
    \cup { <<ModelRelation, NotARelation>>, <<NotARelation, ModelRelation>> }

\* What the macro returns: a str, a dict without 'relations', a dict whose
\* 'relations' is not a list or is a list, or anything else.
ReturnValue(type, has_key, is_list, items) ==
    [type |-> type, has_key |-> has_key, is_list |-> is_list, items |-> items]

ReturnValues ==
    { ReturnValue("str", FALSE, FALSE, <<>>),
      ReturnValue("other", FALSE, FALSE, <<>>),
      ReturnValue("dict", FALSE, FALSE, <<>>),
      ReturnValue("dict", TRUE, FALSE, <<>>) }
    \cup { ReturnValue("dict", TRUE, TRUE, l) : l \in ReturnedLists }

NoMaterialization ==
    [macro |-> TRUE, config |-> TRUE, pre_hook |-> "ok", generator |-> "ok",
     post_hook |-> "ok", returns |-> ReturnValue("other", FALSE, FALSE, <<>>),
     main |-> FALSE, agate_table |-> FALSE]

Materializations ==
    { [NoMaterialization EXCEPT !.macro = FALSE],
      [NoMaterialization EXCEPT !.config = FALSE],
      [NoMaterialization EXCEPT !.pre_hook = "RuntimeException"],
      [NoMaterialization EXCEPT !.generator = "RuntimeException"],
      [NoMaterialization EXCEPT !.generator = "RuntimeException",
                                !.post_hook = "Exception"],
      [NoMaterialization EXCEPT !.post_hook = "RuntimeException"] }
    \cup { [NoMaterialization EXCEPT !.returns = v, !.main = st[1],
                                     !.agate_table = st[2]] :
             v \in ReturnValues,
             st \in { <<FALSE, FALSE>>, <<TRUE, FALSE>>, <<TRUE, TRUE>> } }

Validated(relations) == [raised |-> None, relations |-> relations]

Invalid == [raised |-> "CompilationException", relations |-> <<>>]

\* Objects that are not relations are left out instead of refused.
_validate_materialization_relations_dict_lenient(inp) ==
    IF ~inp.has_key \/ ~inp.is_list THEN Invalid
    ELSE Validated(SelectSeq(inp.items, LAMBDA x : x # NotARelation))

_validate_materialization_relations_dict(inp) ==
    IF ~inp.has_key THEN Invalid
    ELSE IF ~inp.is_list THEN Invalid
    ELSE IF \E i \in DOMAIN inp.items : inp.items[i] = NotARelation
    THEN Invalid
    ELSE Validated(inp.items)

_materialization_relations(result) ==
    IF result.type = "str" THEN Validated(<<ModelRelation>>)
    ELSE IF result.type = "dict"
    THEN _validate_materialization_relations_dict(result)
    ELSE Invalid

\* adapter.cache_added(relation): the relation is added to the cache.
cache_added(c, relation) == (CHOOSE o \in add(c, relation) : TRUE).c

RECURSIVE cache_added_all(_, _)
cache_added_all(c, relations) ==
    IF relations = <<>> THEN c
    ELSE cache_added_all(cache_added(c, Head(relations)), Tail(relations))

\* _build_run_model_result: load_result('main') is None when the
\* materialization stored no 'main' result, and result.status then raises
\* AttributeError; SeedRunner reads load_result('agate_table').table too.
_build_run_model_result(self, m) ==
    IF ~m.main THEN "Exception"
    ELSE IF self.kind = "seed" /\ ~m.agate_table THEN "Exception"
    ELSE None

\* ModelRunner.execute on cache c: the class it raises or None, the cache
\* as it leaves it and the relations it passed to cache_added.
ModelRunner_execute(self, c, m) ==
    LET raise(cls) == [raised |-> cls, c |-> c, added |-> <<>>]
        rels == _materialization_relations(m.returns)
        c2   == cache_added_all(c, rels.relations)
    IN  IF ~m.macro THEN raise("CompilationException")
        ELSE IF ~m.config THEN raise("InternalException")
        ELSE IF m.pre_hook # "ok" THEN raise(m.pre_hook)
        ELSE IF m.post_hook # "ok" THEN raise(m.post_hook)
        ELSE IF m.generator # "ok" THEN raise(m.generator)
        ELSE IF rels.raised # None THEN raise(rels.raised)
        ELSE [raised |-> _build_run_model_result(self, m), c |-> c2,
              added |-> rels.relations]

\* BaseRunner.__init__: not skipped, no cause.  given_ephemeral_cause is set
\* once a do_skip call has carried the result of an ephemeral model.
IdleRunner ==
    [pc |-> "idle", kind |-> "compile", ephemeral |-> FALSE,
     acquire |-> "ok", compile |-> "ok", execute |-> "ok", release |-> "ok",
     skip |-> FALSE, skip_cause |-> None, given_ephemeral_cause |-> FALSE,
     source |-> NoSource, test |-> NoTest,
     raised |-> None, result |-> NoResult, trace |-> <<>>,
     materialization |-> NoMaterialization, added |-> <<>>]

-----------------------------------------------------------------------------
(* The scheduler and its queue.  Their code is not part of these sources:  *)
(* the queue is modelled from its use in test__dependency_list             *)
(* (test/unit/test_graph.py) and the scheduler from the specification's    *)
(* sections 2 and 5: workers pull ready tasks from the queue, drive one    *)
(* runner each, mark the dependents of a failed task for skipping and mark *)
(* the task done.                                                          *)

Tasks == 1 .. MaxTasks

\* Graphs are sets of edges <<dependency, dependent>>.
ChainGraph == { <<i, i + 1>> : i \in 1 .. MaxTasks - 1 }

\* The graph of test__dependency_list: model_2 selects from model_1,
\* model_3 from model_1 and model_2, model_4 from model_3.
TestGraph == ChainGraph \cup { e \in { <<1, 3>> } : e[2] \in Tasks }

\* One task that all others select from.
ForkGraph == { <<1, i>> : i \in 2 .. MaxTasks }

\* One task that selects from all others.
JoinGraph == { <<i, MaxTasks>> : i \in 1 .. MaxTasks - 1 }

\* A chain of two tasks, the other tasks on branches of their own.
BranchGraph == { <<1, 2>> }

Graphs == { ChainGraph, TestGraph, ForkGraph, JoinGraph, BranchGraph }

Dependencies(edges, n) == { e[1] : e \in { d \in edges : d[2] = n } }

RECURSIVE Ancestors(_, _)
Ancestors(edges, n) ==
    LET direct == Dependencies(edges, n)
    IN  direct \cup UNION { Ancestors(edges, d) : d \in direct }

\* get_dependent_nodes: every task downstream of n.
Descendants(edges, n) == { d \in Tasks : n \in Ancestors(edges, d) }

\* The queue: the nodes and edges still in its graph, the nodes put on its
\* inner queue and the nodes handed out and not yet marked done.
EmptyQueue == [nodes |-> {}, edges |-> {}, queued |-> {}, in_progress |-> {}]

\* Every node and not only those without a dependency left in the graph.
_find_new_additions_any(q) ==
    [q EXCEPT !.queued = @ \cup (q.nodes \ (q.in_progress \cup q.queued))]

\* The nodes that no edge of the graph leads to, and that are neither
\* queued nor in progress, are put on the inner queue.
_find_new_additions(q) ==
    [q EXCEPT !.queued = @ \cup
        { n \in q.nodes \ (q.in_progress \cup q.queued) :
             Dependencies(q.edges, n) = {} }]

as_graph_queue(edges) ==
    _find_new_additions([EmptyQueue EXCEPT !.nodes = Tasks, !.edges = edges])

\* get(block=False): a queued node, which is then in progress; Empty when
\* no node is queued.
Empty == 0

\* No get was called yet.
NoGet == MaxTasks + 1

queue_get(q) ==
    IF q.queued = {} THEN { [q |-> q, got |-> Empty] }
    ELSE { [q   |-> [q EXCEPT !.queued = @ \ {n},
                              !.in_progress = @ \cup {n}],
            got |-> n] : n \in q.queued }

mark_done(q, n) ==
    _find_new_additions(
        [q EXCEPT !.in_progress = @ \ {n},
                  !.nodes = @ \ {n},
                  !.edges = { e \in @ : n \notin { e[1], e[2] } }])

queue_empty(q) == q.nodes = {} /\ q.in_progress = {}

\* The cause handed to do_skip: the result of the failed task, of which
\* on_skip reads whether its node is ephemeral.
CauseOf(eph, n) == IF n \in eph THEN "ephemeral" ELSE "not_ephemeral"

Unmarked == "unmarked"

\* The dependents of a task that ended with an error are marked for
\* skipping, downstream to the end of the graph.
_mark_dependent_errors(marks, edges, n, cause) ==
    [d \in Tasks |-> IF d \in Descendants(edges, n) THEN cause ELSE marks[d]]

\* What the phases of an attempt do in a run of the scheduler: return, or
\* raise an Exception (handle_exception makes the same error text of every
\* class).
SchedOutcomes == { "ok", "CompilationException" }

NoTask == [task |-> 0, skip |-> FALSE, skip_cause |-> None]

IdleSched ==
    [pc |-> "idle", edges |-> {}, eph |-> {}, queue |-> EmptyQueue,
     marks |-> [n \in Tasks |-> Unmarked],
     running |-> [w \in {"w1", "w2"} |-> NoTask],
     got |-> [w \in {"w1", "w2"} |-> NoGet],
     results |-> [n \in Tasks |-> NoResult],
     raised |-> [n \in Tasks |-> None],
     traces |-> [n \in Tasks |-> <<>>]]

-----------------------------------------------------------------------------
(* State *)

VARIABLES
    relations,   \* RelationsCache.relations: key -> object id
    objs,        \* the _CachedRelation objects: id -> [inner, referenced_by]
    schemas,     \* RelationsCache.schemas
    last,        \* the call that ended last: [op, a, b, exc, ret], and cls,
                 \* the class of the calls made before it
    pre,         \* the cache as that call found it
    opsClass,    \* which calls were made so far: "build", "mutate", "any"
    nops,        \* how many calls were made so far
    mode,        \* "serial": one thread calls; "concurrent": the workers run
    base,        \* the cache as the workers found it
    thread,      \* each worker's call, position in it, locals and outcome;
                 \* held: it took the lock before the call; log: the logger
                 \* is enabled
    lock,        \* RelationsCache.lock: the worker holding it, or None
    runner,      \* a node runner, what its attempt will meet, and how its
                 \* run_with_hooks call ended
    sched        \* a run of the scheduler: the graph, the queue, the marks
                 \* for skipping, each worker's task and each task's result

vars == <<relations, objs, schemas, last, pre, opsClass, nops,
          mode, base, thread, lock, runner, sched>>

\* The workers of the concurrent phase.
Workers == {"w1", "w2"}

\* What a worker's call returned: nothing (kind "None"), the boolean of
\* __contains__, the list of get_relations or the dict of dump_graph.
NoRet == [kind |-> None, bool |-> FALSE, rels |-> {}, graph |-> EmptyDict]

RetOf(op, exc, ret) ==
    IF exc # None THEN NoRet
    ELSE CASE op = "contains"      -> [NoRet EXCEPT !.kind = "bool", !.bool = ret]
           [] op = "get_relations" -> [NoRet EXCEPT !.kind = "rels", !.rels = ret]
           [] op = "dump_graph"    -> [NoRet EXCEPT !.kind = "graph", !.graph = ret]
           [] OTHER                -> NoRet

Idle == [pc |-> "idle", op |-> None, a |-> NoRel, b |-> NoRel,
         exc |-> None, ret |-> NoRet, keys |-> {},
         held |-> FALSE, log |-> FALSE]

Cache == [relations |-> relations, objs |-> objs, schemas |-> schemas]

NoCall == [op |-> None, a |-> NoRel, b |-> NoRel, exc |-> None, ret |-> None,
           cls |-> "build"]

Init ==
    /\ relations = EmptyDict
    /\ objs = EmptyDict
    /\ schemas = {}
    /\ last = NoCall
    /\ pre = EmptyCache
    /\ opsClass = "build"
    /\ nops = 0
    /\ mode = "serial"
    /\ base = EmptyCache
    /\ thread = [w \in Workers |-> Idle]
    /\ lock = None
    /\ runner = IdleRunner
    /\ sched = IdleSched

\* "build": only add and add_link were called; "mutate": drop and rename too;
\* "any": also schema operations or clear.  Reads do not count.
ClassOf(op) ==
    CASE op \in {"add", "add_link"} -> "build"
      [] op \in {"drop", "rename"} -> "mutate"
      [] op \in {"contains", "get_relations"} -> "build"
      [] OTHER -> "any"

JoinClass(x, y) ==
    IF "any" \in {x, y} THEN "any"
    ELSE IF "mutate" \in {x, y} THEN "mutate" ELSE "build"

\* A call of op(a, b) runs to its end with one of its outcomes.
Call(op, a, b, outcomes) ==
    /\ mode = "serial"
    /\ UNCHANGED <<mode, base, thread, lock, runner, sched>>
    /\ nops' = nops + 1
    /\ \E o \in outcomes :
        LET c == Collect(o.c)
        IN  /\ relations' = c.relations
            /\ objs' = c.objs
            /\ schemas' = c.schemas
            /\ last' = [op |-> op, a |-> a, b |-> b, exc |-> o.exc, ret |-> o.ret,
                         cls |-> opsClass]
            /\ pre' = Cache
            /\ opsClass' = JoinClass(opsClass, ClassOf(op))

\* A new _CachedRelation fits in the heap.
HeapRoom(relation) ==
    _make_key(relation) \in DOMAIN relations \/ FreeIds(Cache) # {}

Add(relation) ==
    /\ HeapRoom(relation)
    /\ Call("add", relation, NoRel, add(Cache, relation))

AddLink(referenced, dependent) ==
    Call("add_link", referenced, dependent, add_link(Cache, referenced, dependent))

Drop(relation) ==
    Call("drop", relation, NoRel, drop(Cache, relation))

Rename(old, new) ==
    /\ HeapRoom(new)
    /\ Call("rename", old, new, rename(Cache, old, new))

AddSchema(s) ==
    Call("add_schema", s, NoRel, { Ok(add_schema(Cache, s.database, s.schema)) })

RemoveSchema(s) ==
    Call("remove_schema", s, NoRel, { Ok(remove_schema(Cache, s.database, s.schema)) })

UpdateSchemas(ss) ==
    Call("update_schemas", NoRel, NoRel, { Ok(update_schemas(Cache, ss)) })

Contains(s) ==
    Call("contains", s, NoRel, { Return(Cache, contains(Cache, s.database, s.schema)) })

GetRelations(s) ==
    Call("get_relations", s, NoRel, get_relations(Cache, s.database, s.schema))

Clear ==
    Call("clear", NoRel, NoRel, { Ok(clear(Cache)) })

\* The calls that register, link, drop and rename relations.
Next ==
    /\ nops < MaxOps
    /\ \/ \E r \in BaseRelations : Add(r)
       \/ \E r, d \in KeyRelations : AddLink(r, d)
       \/ \E r \in KeyRelations : Drop(r)
       \/ \E o \in KeyRelations, n \in BaseRelations : Rename(o, n)

Spec == Init /\ [][Next]_vars

\* Every call of the cache.
ApiNext ==
    /\ nops < MaxApiOps
    /\ \/ \E r \in BaseRelations : Add(r)
       \/ \E r, d \in KeyRelations : AddLink(r, d)
       \/ \E r \in KeyRelations : Drop(r)
       \/ \E o \in KeyRelations, n \in BaseRelations : Rename(o, n)
       \/ \E s \in SchemaArgs : AddSchema(s)
       \/ \E s \in SchemaArgs : RemoveSchema(s)
       \/ \E ss \in SUBSET SchemaArgs : UpdateSchemas(ss)
       \/ \E s \in SchemaArgs : Contains(s)
       \/ \E s \in SchemaArgs : GetRelations(s)
       \/ Clear

SpecApi == Init /\ [][ApiNext]_vars

-----------------------------------------------------------------------------
(* Vocabulary of the properties *)

Registered(c) == DOMAIN c.relations

\* The keys of the referenced_by dict of the entry registered under k.
ReferencedBy(c, k) == DOMAIN c.objs[c.relations[k]].referenced_by

\* The descriptor of the entry registered under k.
Inner(c, k) == c.objs[c.relations[k]].inner

\* S and everything reachable from S along referenced_by keys.
RECURSIVE Dependents(_, _)
Dependents(c, S) ==
    LET N == S \cup UNION { ReferencedBy(c, k) : k \in S \cap Registered(c) }
    IN  IF N = S THEN S ELSE Dependents(c, N)

Acyclic(c) ==
    \A k \in Registered(c) : k \notin Dependents(c, ReferencedBy(c, k))

SchemaOf(k) == <<k.database, k.schema>>

A  == Rel("db", "s", "a")
B  == Rel("db", "s", "b")
A2 == Rel("db", "t", "a")

LastKeyA == _make_key(last.a)
LastKeyB == _make_key(last.b)

-----------------------------------------------------------------------------
(* Cascade drop *)

\* C1: in a cache built by add and add_link alone whose reference graph is
\* acyclic, drop(X) of a registered X raises nothing and removes exactly X
\* and the relations reachable from X along referenced_by; the survivors
\* keep their descriptors.  After add(A), add(B), add_link(A, B), drop(A)
\* neither is registered and get_relations(db, s) is empty.
C1_DropRemovesExactlyDependents ==
    (/\ last.op = "drop"
     /\ last.cls = "build"
     /\ LastKeyA \in Registered(pre)
     /\ Acyclic(pre))
    => /\ last.exc = None
       /\ Registered(Cache) = Registered(pre) \ Dependents(pre, {LastKeyA})
       /\ \A k \in Registered(Cache) : Inner(Cache, k) = Inner(pre, k)
       /\ (/\ Registered(pre) = {A, B}
           /\ ReferencedBy(pre, A) = {B}
           /\ LastKeyA = A)
          => /\ Registered(Cache) = {}
             /\ get_relations(Cache, "db", "s") = { Return(Cache, {}) }

\* A drop in an acyclic built cache took a relation that depended on the
\* dropped one only through another, and left a relation registered.
C1_Witness ==
    /\ last.op = "drop"
    /\ last.cls = "build"
    /\ LastKeyA \in Registered(pre)
    /\ Acyclic(pre)
    /\ \E k \in Dependents(pre, {LastKeyA}) :
          k # LastKeyA /\ k \notin ReferencedBy(pre, LastKeyA)
    /\ Registered(pre) = Keys
    /\ Registered(Cache) = {}

\* C2: drop(X) of a registered X ends without an exception and removes X and
\* everything reachable from it, also when the reference graph built by
\* add_link has a cycle or a self-link.
C2_DropTerminatesOnCycles ==
    (/\ last.op = "drop"
     /\ last.cls = "build"
     /\ LastKeyA \in Registered(pre))
    => /\ last.exc = None
       /\ Registered(Cache) = Registered(pre) \ Dependents(pre, {LastKeyA})

-----------------------------------------------------------------------------
(* Known schemas *)

\* C6: after any sequence of add, add_link, drop and rename calls, every
\* registered relation's (database, schema) is in the set of known schemas.
C6_RegisteredSchemaKnown ==
    \A k \in Registered(Cache) : SchemaOf(k) \in schemas

\* C7: after a rename that moved a registered old to new, new's schema is
\* known, and old's schema is still known if it was known and a relation is
\* still registered under it.
C7_RenameKeepsReferencedSchema ==
    (/\ last.op = "rename"
     /\ last.exc = None
     /\ LastKeyA \in Registered(pre))
    => /\ SchemaOf(LastKeyB) \in schemas
       /\ (/\ SchemaOf(LastKeyA) \in pre.schemas
           /\ \E k \in Registered(Cache) : SchemaOf(k) = SchemaOf(LastKeyA))
          => SchemaOf(LastKeyA) \in schemas

-----------------------------------------------------------------------------
(* Rename *)

\* C8: a rename of a registered old to an unregistered new that raises
\* nothing leaves the entry of old registered under new and nothing under
\* old; every other entry holds new's key in referenced_by iff it held
\* old's key before, and no longer holds old's key; the other entries, the
\* other keys of every referenced_by and the moved entry's own
\* referenced_by are as before.
C8_RenameMovesEntryAndRewritesEdges ==
    (/\ last.op = "rename"
     /\ last.exc = None
     /\ LastKeyA \in Registered(pre)
     /\ LastKeyB \notin Registered(pre))
    => /\ Registered(Cache) = (Registered(pre) \ {LastKeyA}) \cup {LastKeyB}
       /\ relations[LastKeyB] = pre.relations[LastKeyA]
       /\ ReferencedBy(Cache, LastKeyB) = ReferencedBy(pre, LastKeyA)
       /\ \A x \in Registered(pre) \ {LastKeyA} :
            /\ relations[x] = pre.relations[x]
            /\ Inner(Cache, x) = Inner(pre, x)
            /\ LastKeyB \in ReferencedBy(Cache, x) <=> LastKeyA \in ReferencedBy(pre, x)
            /\ LastKeyA \notin ReferencedBy(Cache, x)
            /\ ReferencedBy(Cache, x) \ {LastKeyA, LastKeyB}
                 = ReferencedBy(pre, x) \ {LastKeyA, LastKeyB}

\* The cache as add(A), add(B), add_link(A, B) leave it, and rename(A, A2)
\* called on it.
C9_Scenario ==
    /\ last.op = "rename"
    /\ last.cls = "build"
    /\ LastKeyA = A
    /\ LastKeyB = A2
    /\ Registered(pre) = {A, B}
    /\ ReferencedBy(pre, A) = {B}
    /\ ReferencedBy(pre, B) = {}

\* C9 as stated: after add(A), add(B), add_link(A, B), rename(A, A2) the
\* cache holds A2 and B and not A, and B's referenced_by holds the key of A2
\* and not the key of A.
C9_RenameScenarioAsStated ==
    C9_Scenario
    => /\ last.exc = None
       /\ Registered(Cache) = {A2, B}
       /\ A2 \in ReferencedBy(Cache, B)
       /\ A \notin ReferencedBy(Cache, B)

\* C9 amended: after add(A), add(B), add_link(A, B), rename(A, A2) the cache
\* holds A2 and B and not A; the edge add_link recorded is in A's entry,
\* which moved to A2: A2's referenced_by holds the key of B, and B's
\* referenced_by is empty (neither the key of A nor that of A2).
C9_RenameScenario ==
    C9_Scenario
    => /\ last.exc = None
       /\ Registered(Cache) = {A2, B}
       /\ ReferencedBy(Cache, A2) = {B}
       /\ ReferencedBy(Cache, B) = {}
       /\ Inner(Cache, A2) = A2

C9_Witness ==
    /\ C9_Scenario
    /\ nops = 4
    /\ A2 \in Registered(Cache)

\* What add(new) does to the cache that the last call found.
AddOutcomes(new) ==
    { [c |-> Collect(o.c), exc |-> o.exc] : o \in add(pre, new) }

LastOutcome == [c |-> Cache, exc |-> last.exc]

-----------------------------------------------------------------------------
(* Errors and no-ops *)

\* C11: rename(old, new) with new's key registered raises a consistency
\* error and leaves relations, every referenced_by and the known schemas as
\* they were, whether or not old is registered.
C11_RenameOntoRegisteredRaises ==
    (/\ last.op = "rename"
     /\ LastKeyB \in Registered(pre))
    => /\ last.exc = InternalException
       /\ Cache = pre

\* A rename onto a registered name was refused with old registered and with
\* old not registered, in a cache that holds an edge.
C11_Witness ==
    /\ last.op = "rename"
    /\ LastKeyB \in Registered(pre)
    /\ LastKeyA \notin Registered(pre)
    /\ last.exc = InternalException
    /\ \E k \in Registered(pre) : ReferencedBy(pre, k) # {}

C13_AddLinkRegisteredOnly ==
    (/\ last.op = "add_link"
     /\ SchemaOf(LastKeyA) \in pre.schemas)
    => IF {LastKeyA, LastKeyB} \subseteq Registered(pre)
       THEN /\ last.exc = None
            /\ relations = pre.relations
            /\ schemas = pre.schemas
            /\ ReferencedBy(Cache, LastKeyA) = ReferencedBy(pre, LastKeyA) \cup {LastKeyB}
            /\ objs[relations[LastKeyA]].referenced_by[LastKeyB] = relations[LastKeyB]
            /\ \A k \in Registered(pre) :
                  /\ Inner(Cache, k) = Inner(pre, k)
                  /\ k # LastKeyA => objs[relations[k]] = pre.objs[relations[k]]
                  /\ \A d \in ReferencedBy(pre, k) \ {LastKeyB} :
                        objs[relations[k]].referenced_by[d]
                          = pre.objs[relations[k]].referenced_by[d]
       ELSE /\ last.exc = InternalException
            /\ Cache = pre

\* An add_link recorded a second edge on a relation, between two different
\* registered relations.
C13_Witness ==
    /\ last.op = "add_link"
    /\ SchemaOf(LastKeyA) \in pre.schemas
    /\ {LastKeyA, LastKeyB} \subseteq Registered(pre)
    /\ LastKeyA # LastKeyB
    /\ ReferencedBy(pre, LastKeyA) # {}
    /\ LastKeyB \notin ReferencedBy(pre, LastKeyA)
    /\ LastKeyB \in ReferencedBy(Cache, LastKeyA)

\* An add_link was refused because the dependent was not registered.
C13_WitnessRefused ==
    /\ last.op = "add_link"
    /\ SchemaOf(LastKeyA) \in pre.schemas
    /\ LastKeyA \in Registered(pre)
    /\ LastKeyB \notin Registered(pre)
    /\ last.exc = InternalException

-----------------------------------------------------------------------------
(* Lookup *)

\* The ways a caller may spell a lower-case name.
Spellings(name) == { x \in {"db", "DB", "s", "S", "t", "T"} : _lower(x) = name }

\* The descriptors of the relations registered under the schema of key k.
RegisteredUnder(c, k) ==
    { Inner(c, j) : j \in { x \in Registered(c) : SchemaOf(x) = SchemaOf(k) } }

\* get_relations with the schema of k in any letter case returns exactly
\* the descriptors registered under that schema.
LookupFinds(c, k) ==
    \A d \in Spellings(k.database), sc \in Spellings(k.schema) :
        get_relations(c, d, sc) = { Return(c, RegisteredUnder(c, k)) }

\* C14 as stated: right after add(R), get_relations with R's database and
\* schema in any letter case returns a list that holds R's own descriptor.
C14_LookupReturnsAddedAsStated ==
    (last.op = "add" /\ last.exc = None)
    => \A d \in Spellings(LastKeyA.database), sc \in Spellings(LastKeyA.schema) :
         \A o \in get_relations(Cache, d, sc) : o.exc = None /\ last.a \in o.ret

\* C14 amended: add(R) leaves R's key registered, with R's own descriptor
\* when the key was not registered and with the descriptor of the earlier
\* add when it was (first write wins); the entry and its descriptor stay
\* until a drop, a rename or a clear; and get_relations with the database
\* and schema of a registered relation in any letter case returns exactly
\* the descriptors of the relations registered under that (database,
\* schema), that relation's among them.
C14_LookupReturnsRegistered ==
    /\ last.op = "add"
       => /\ last.exc = None
          /\ LastKeyA \in Registered(Cache)
          /\ Inner(Cache, LastKeyA) =
                IF LastKeyA \in Registered(pre) THEN Inner(pre, LastKeyA) ELSE last.a
    /\ last.op \notin {"drop", "rename", "clear"}
       => \A k \in Registered(pre) :
            k \in Registered(Cache) /\ Inner(Cache, k) = Inner(pre, k)
    /\ \A k \in Registered(Cache) :
          /\ LookupFinds(Cache, k)
          /\ Inner(Cache, k) \in RegisteredUnder(Cache, k)
          /\ \A r \in RegisteredUnder(Cache, k) : SchemaOf(_make_key(r)) = SchemaOf(k)
    /\ last.op = "get_relations"
       => /\ last.exc = None
          /\ last.ret = { Inner(pre, j) : j \in
                            { x \in Registered(pre) : SchemaOf(x) = SchemaOf(LastKeyA) } }

\* get_relations, called with an upper-case database and schema, returned
\* two registered relations, one of them added in upper case, and left out a
\* relation registered under another schema.
C14_Witness ==
    /\ last.op = "get_relations"
    /\ last.a.database = "DB"
    /\ last.a.schema = "S"
    /\ Cardinality(last.ret) = 2
    /\ Rel("DB", "S", "A") \in last.ret
    /\ \E k \in Registered(pre) : Inner(pre, k) \notin last.ret

-----------------------------------------------------------------------------
(* add on a registered key *)

\* C15: add(R) with R's key registered raises nothing and leaves the entry
\* registered under the key, its descriptor, its referenced_by and every
\* other entry as they were; the known schemas are as before with R's schema
\* among them.  After any add(R), a second add(R) changes nothing.
C15_AddFirstWriteWins ==
    /\ (last.op = "add" /\ LastKeyA \in Registered(pre))
       => /\ last.exc = None
          /\ relations = pre.relations
          /\ objs = pre.objs
          /\ schemas = pre.schemas \cup { SchemaOf(LastKeyA) }
    /\ last.op = "add"
       => \A o \in add(Cache, last.a) : o.exc = None /\ Collect(o.c) = Cache

\* add was called with another spelling of a registered relation that other
\* relations refer to.
C15_Witness ==
    /\ last.op = "add"
    /\ LastKeyA \in Registered(pre)
    /\ Inner(pre, LastKeyA) # last.a
    /\ ReferencedBy(pre, LastKeyA) # {}
    /\ Inner(Cache, LastKeyA) = Inner(pre, LastKeyA)

\* add was called for a registered relation whose schema was no longer
\* known, and made it known again.
C15_WitnessSchema ==
    /\ last.op = "add"
    /\ LastKeyA \in Registered(pre)
    /\ SchemaOf(LastKeyA) \notin pre.schemas
    /\ SchemaOf(LastKeyA) \in schemas

-----------------------------------------------------------------------------
(* drop of an unregistered relation *)

\* C16: drop(X) with X's key not registered raises nothing and leaves
\* relations, every referenced_by and the known schemas as they were.
C16_DropAbsentIsNoOp ==
    (/\ last.op = "drop"
     /\ LastKeyA \notin Registered(pre))
    => /\ last.exc = None
       /\ Cache = pre

\* drop was called for an unregistered relation of a known schema, in a
\* cache that holds an edge.
C16_Witness ==
    /\ last.op = "drop"
    /\ LastKeyA \notin Registered(pre)
    /\ SchemaOf(LastKeyA) \in pre.schemas
    /\ \E k \in Registered(pre) : ReferencedBy(pre, k) # {}
    /\ last.exc = None

-----------------------------------------------------------------------------
(* Letter case *)

\* The names that differ only in letter case.
CaseClasses ==
    { {"db", "DB"}, {"s", "S"}, {"t", "T"}, {"a", "A"}, {"b", "B"}, {None} }

SameName(x) == CHOOSE cl \in CaseClasses : x \in cl

\* A relation or schema argument in every letter case.
Respell(r) ==
    { Rel(d, sc, i) : d \in SameName(r.database), sc \in SameName(r.schema),
                      i \in SameName(r.identifier) }

\* The outcomes of the call op(a, b) on cache c.
CallOutcomes(c, op, a, b) ==
    CASE op = "add"           -> add(c, a)
      [] op = "add_link"      -> add_link(c, a, b)
      [] op = "drop"          -> drop(c, a)
      [] op = "rename"        -> rename(c, a, b)
      [] op = "get_relations" -> get_relations(c, a.database, a.schema)
      [] op = "add_schema"    -> { Ok(add_schema(c, a.database, a.schema)) }
      [] op = "remove_schema" -> { Ok(remove_schema(c, a.database, a.schema)) }
      [] op = "contains"      -> { Return(c, contains(c, a.database, a.schema)) }

CaseOps == { "add", "add_link", "drop", "rename", "get_relations",
             "add_schema", "remove_schema", "contains" }

\* add and rename store the descriptor they are given: the cache they leave
\* is compared with the names of the descriptors under that key in lower
\* case.
SameButGiven(c, op, a, b) ==
    LET k == IF op = "add" THEN _make_key(a) ELSE _make_key(b)
    IN  IF op \in {"add", "rename"}
        THEN [c EXCEPT !.objs = [i \in DOMAIN c.objs |->
                 IF key(c.objs, i) = k
                 THEN [c.objs[i] EXCEPT !.inner = k]
                 ELSE c.objs[i]]]
        ELSE c

Outcomes(c, op, a, b) ==
    { [c   |-> SameButGiven(Collect(o.c), op, a, b),
       exc |-> o.exc,
       ret |-> o.ret] : o \in CallOutcomes(c, op, a, b) }

\* The schema arguments in every letter case.
SchemaSpellings == UNION { Respell(sk) : sk \in { Rel("db", "s", None), Rel("db", "t", None) } }

\* C17: every call of add, add_link, drop, rename, get_relations,
\* add_schema, remove_schema or contains has the same outcomes (error,
\* returned value, resulting relations, edges and schemas) as the call with
\* the database, schema and identifier of its arguments in any other letter
\* case, the stored descriptor being the one add or rename was given;
\* update_schemas adds the same schemas whatever the letter case of
\* the names it is given; remove_schema of a schema that is not known
\* changes nothing.
C17_CaseInsensitive ==
    /\ last.op \in CaseOps
       => LET asGiven == Outcomes(pre, last.op, last.a, last.b)
          IN  /\ [c |-> SameButGiven(Cache, last.op, last.a, last.b),
                   exc |-> last.exc, ret |-> last.ret] \in asGiven
              /\ \A a2 \in Respell(last.a), b2 \in Respell(last.b) :
                    Outcomes(pre, last.op, a2, b2) = asGiven
    /\ last.op = "update_schemas"
       => /\ last.exc = None
          /\ pre.schemas \subseteq schemas
          /\ [Cache EXCEPT !.schemas = pre.schemas] = pre
          /\ \A ss \in { x \in SUBSET SchemaSpellings : Cardinality(x) <= 2 } :
                LET lower == { Rel(_lower(x.database), _lower(x.schema), None) : x \in ss }
                IN  /\ update_schemas(pre, ss) = update_schemas(pre, lower)
                    /\ update_schemas(pre, ss).schemas
                         = pre.schemas \cup { <<x.database, x.schema>> : x \in lower }
    /\ (last.op = "remove_schema" /\ SchemaOf(LastKeyA) \notin pre.schemas)
       => last.exc = None /\ Cache = pre

\* rename was called with the new name in upper case and moved a registered
\* relation that others refer to.
C17_Witness ==
    /\ last.op = "rename"
    /\ last.b = Rel("DB", "S", "A")
    /\ last.exc = None
    /\ LastKeyA \in Registered(pre)
    /\ ReferencedBy(pre, LastKeyA) # {}
    /\ Rel("db", "s", "a") \in Registered(Cache)

\* remove_schema was called in upper case for a schema that was not known.
C17_WitnessRemoveAbsent ==
    /\ last.op = "remove_schema"
    /\ last.a.schema = "S"
    /\ SchemaOf(LastKeyA) \notin pre.schemas
    /\ pre.schemas # {}

-----------------------------------------------------------------------------
(* Workers calling the cache concurrently.                                 *)
(*                                                                         *)
(* One thread fills the cache (add, add_link); then every worker makes one *)
(* call.  A call is cut where another thread can see or change what it     *)
(* works on: at each access of self.schemas, which add_schema,             *)
(* remove_schema, __contains__ and the schema test of add_link read and    *)
(* write without the lock, and between the statements run under the lock.  *)

Call3(op, a, b) == [op |-> op, a |-> a, b |-> b]

SchemaKeys == { Rel("db", "s", None), Rel("db", "t", None) }

Menu ==
    { Call3("add", r, NoRel) : r \in KeyRelations }
    \cup { Call3("drop", r, NoRel) : r \in KeyRelations }
    \cup { Call3("rename", o, n) : o \in KeyRelations, n \in KeyRelations }
    \cup { Call3("add_link", r, d) : r \in KeyRelations, d \in KeyRelations }
    \cup { Call3("contains", x, NoRel) : x \in SchemaKeys }
    \cup { Call3("remove_schema", x, NoRel) : x \in SchemaKeys }
    \cup { Call3("get_relations", x, NoRel) : x \in SchemaKeys }

\* A lock that excludes nobody.
AcquireUnlocked(w) == TRUE

\* A lock that a thread cannot take twice.
AcquireNonReentrant(w) == lock = None

\* `with self.lock`: an RLock is taken when free or held by the same thread.
Acquire(w) == lock \in {None, w}

\* The end of `with self.lock`: the RLock stays with a thread that had taken
\* it before the call.
Release(w) == IF thread[w].held THEN w ELSE None

Fill ==
    /\ mode = "serial"
    /\ nops < MaxSetup
    /\ \/ \E r \in KeyRelations : Add(r)
       \/ \E r, d \in KeyRelations : AddLink(r, d)

StartWorkers ==
    /\ mode = "serial"
    /\ mode' = "concurrent"
    /\ base' = Cache
    /\ \E calls \in [Workers -> Menu] :
          thread' = [w \in Workers |->
                       [Idle EXCEPT !.pc = "start", !.op = calls[w].op,
                                    !.a = calls[w].a, !.b = calls[w].b]]
    /\ last' = NoCall
    /\ pre' = EmptyCache
    /\ nops' = 0
    /\ opsClass' = "build"
    /\ UNCHANGED <<relations, objs, schemas, lock, runner, sched>>

\* Worker w leaves the cache as c and its own record as t.
Step(w, c, t) ==
    /\ mode = "concurrent"
    /\ LET cc == Collect(c)
       IN  /\ relations' = cc.relations
           /\ objs' = cc.objs
           /\ schemas' = cc.schemas
    /\ thread' = [thread EXCEPT ![w] = t]
    /\ UNCHANGED <<last, pre, opsClass, nops, mode, base, runner, sched>>

At(w, op, pc) == thread[w].op = op /\ thread[w].pc = pc

\* The call ends; add and rename that raised nothing go on to
\* lazy_log('after ...', self.dump_graph) when the logger is enabled.
Done(w, exc, ret) ==
    [thread[w] EXCEPT !.pc  = IF /\ thread[w].log
                                 /\ thread[w].op \in {"add", "rename"}
                                 /\ exc = None
                              THEN "log_after" ELSE "done",
                      !.exc = exc, !.ret = RetOf(thread[w].op, exc, ret)]

Goto(w, pc) == [thread[w] EXCEPT !.pc = pc]

\* add: `with self.lock: self._setdefault(cached)`
AddSchemaStep(w) ==
    /\ At(w, "add", "start")
    /\ Acquire(w)
    /\ lock' = w
    /\ Step(w, setdefault_add_schema(Cache, thread[w].a), Goto(w, "setdefault"))

AddSetdefaultStep(w) ==
    /\ At(w, "add", "setdefault")
    /\ lock' = Release(w)
    /\ Step(w, relations_setdefault(Cache, thread[w].a), Done(w, None, None))

\* drop: `with self.lock: self._drop_cascade_relation(dropped)`
DropCollectStep(w) ==
    /\ At(w, "drop", "start")
    /\ Acquire(w)
    /\ LET dropped == _make_key(thread[w].a)
       IN  IF dropped \notin DOMAIN relations
           THEN /\ lock' = Release(w)
                /\ Step(w, Cache, Done(w, None, None))
           ELSE LET consequences == collect_consequences(objs, relations[dropped], 0)
                IN  IF consequences.overflow
                    THEN /\ lock' = Release(w)
                         /\ Step(w, Cache, Done(w, RecursionError, None))
                    ELSE /\ lock' = w
                         /\ Step(w, Cache, [thread[w] EXCEPT !.pc = "remove_refs",
                                                             !.keys = consequences.keys])

DropRemoveStep(w) ==
    /\ At(w, "drop", "remove_refs")
    /\ lock' = Release(w)
    /\ \E o \in _remove_refs(Cache, thread[w].keys) :
          Step(w, o.c, Done(w, o.exc, None))

\* rename: `with self.lock:` the check, then _rename_relation or _setdefault
RenameMoveStep(w) ==
    /\ At(w, "rename", "start")
    /\ Acquire(w)
    /\ LET old_key == _make_key(thread[w].a)
           new_key == _make_key(thread[w].b)
           check   == _check_rename_constraints(Cache, old_key, new_key)
       IN  CASE check = "raise" ->
                  /\ lock' = Release(w)
                  /\ Step(w, Cache, Done(w, InternalException, None))
             [] check = "False" ->
                  /\ lock' = w
                  /\ Step(w, setdefault_add_schema(Cache, thread[w].b),
                          Goto(w, "setdefault"))
             [] OTHER ->
                  \E o \in _rename_relation_move(Cache, old_key, thread[w].b) :
                     IF o.exc = None
                     THEN /\ lock' = w
                          /\ Step(w, o.c, Goto(w, "remove_schema"))
                     ELSE /\ lock' = Release(w)
                          /\ Step(w, o.c, Done(w, o.exc, None))

RenameSetdefaultStep(w) ==
    /\ At(w, "rename", "setdefault")
    /\ lock' = Release(w)
    /\ Step(w, relations_setdefault(Cache, thread[w].b), Done(w, None, None))

RenameRemoveSchemaStep(w) ==
    /\ At(w, "rename", "remove_schema")
    /\ lock' = w
    /\ Step(w, rename_fixup_remove(Cache, _make_key(thread[w].a)),
            Goto(w, "add_schema"))

RenameAddSchemaStep(w) ==
    /\ At(w, "rename", "add_schema")
    /\ lock' = Release(w)
    /\ Step(w, rename_fixup_add(Cache, _make_key(thread[w].b)), Done(w, None, None))

\* add_link: the schema test, outside the lock
AddLinkCheckStep(w) ==
    /\ At(w, "add_link", "start")
    /\ UNCHANGED lock
    /\ IF add_link_schema_cached(Cache, thread[w].a)
       THEN Step(w, Cache, Goto(w, "locked"))
       ELSE Step(w, Cache, Done(w, None, None))

\* add_link: `with self.lock: self._add_link(referenced, dependent)`
AddLinkLockedStep(w) ==
    /\ At(w, "add_link", "locked")
    /\ Acquire(w)
    /\ lock' = Release(w)
    /\ \E o \in _add_link(Cache, _make_key(thread[w].a), _make_key(thread[w].b)) :
          Step(w, o.c, Done(w, o.exc, None))

\* __contains__ and remove_schema take no lock.
ContainsStep(w) ==
    /\ At(w, "contains", "start")
    /\ UNCHANGED lock
    /\ Step(w, Cache, Done(w, None, contains(Cache, thread[w].a.database,
                                             thread[w].a.schema)))

RemoveSchemaStep(w) ==
    /\ At(w, "remove_schema", "start")
    /\ UNCHANGED lock
    /\ Step(w, remove_schema(Cache, thread[w].a.database, thread[w].a.schema),
            Done(w, None, None))

\* get_relations: the list is built under the lock.
GetRelationsStep(w) ==
    /\ At(w, "get_relations", "start")
    /\ Acquire(w)
    /\ lock' = Release(w)
    /\ \E o \in get_relations(Cache, thread[w].a.database, thread[w].a.schema) :
          Step(w, o.c, Done(w, o.exc, o.ret))

ConcNext ==
    \/ Fill
    \/ StartWorkers
    \/ \E w \in Workers :
          \/ AddSchemaStep(w)
          \/ AddSetdefaultStep(w)
          \/ DropCollectStep(w)
          \/ DropRemoveStep(w)
          \/ RenameMoveStep(w)
          \/ RenameSetdefaultStep(w)
          \/ RenameRemoveSchemaStep(w)
          \/ RenameAddSchemaStep(w)
          \/ AddLinkCheckStep(w)
          \/ AddLinkLockedStep(w)
          \/ ContainsStep(w)
          \/ RemoveSchemaStep(w)
          \/ GetRelationsStep(w)

SpecConc == Init /\ [][ConcNext]_vars

-----------------------------------------------------------------------------
(* Serial orderings of the workers' calls *)

AllDone == mode = "concurrent" /\ \A w \in Workers : thread[w].pc = "done"

\* What a caller can tell of a cache: the registered keys, each entry's
\* descriptor and referenced_by (key and the key of the object it holds),
\* and the known schemas.
View(c) ==
    [relations |->
        [k \in Registered(c) |->
            [inner |-> Inner(c, k),
             referenced_by |->
                [d \in ReferencedBy(c, k) |->
                    key(c.objs, c.objs[c.relations[k]].referenced_by[d])]]],
     schemas |-> c.schemas]

\* The call run as a whole on cache c.
RunCall(c, call) ==
    CASE call.op = "add"           -> add(c, call.a)
      [] call.op = "drop"          -> drop(c, call.a)
      [] call.op = "rename"        -> rename(c, call.a, call.b)
      [] call.op = "add_link"      -> add_link(c, call.a, call.b)
      [] call.op = "contains"      ->
            { Return(c, contains(c, call.a.database, call.a.schema)) }
      [] call.op = "remove_schema" ->
            { Ok(remove_schema(c, call.a.database, call.a.schema)) }
      [] call.op = "get_relations" ->
            get_relations(c, call.a.database, call.a.schema)

Orders ==
    { o \in [1..Cardinality(Workers) -> Workers] :
        \A i, j \in DOMAIN o : i # j => o[i] # o[j] }

\* The ends of running the workers' calls one after the other in `order`
\* from cache c: the cache left and each call's outcome.
RECURSIVE SerialRuns(_, _, _)
SerialRuns(c, order, out) ==
    IF order = <<>>
    THEN { [view |-> View(c), out |-> out] }
    ELSE UNION { SerialRuns(Collect(o.c), Tail(order),
                            DictSet(out, Head(order),
                                    [exc |-> o.exc,
                                     ret |-> RetOf(thread[Head(order)].op, o.exc, o.ret)])) :
                 o \in RunCall(c, thread[Head(order)]) }

SerialEnds(order) == SerialRuns(base, order, EmptyDict)

ConcurrentEnd ==
    [view |-> View(Cache),
     out  |-> [w \in Workers |-> [exc |-> thread[w].exc, ret |-> thread[w].ret]]]

Serializable == \E order \in Orders : ConcurrentEnd \in SerialEnds(order)

\* C3: when workers call add, drop and rename concurrently, the cache they
\* leave (relations, referenced_by, schemas) and the outcome of each call
\* are those of the same calls made one after the other in some order.
C3_AddDropRenameSerializable ==
    (/\ AllDone
     /\ \A w \in Workers : thread[w].op \in {"add", "drop", "rename"})
    => Serializable

\* A drop and a rename ran concurrently on linked relations, both changed
\* the cache, and the two serial orders end differently.
C3_Witness ==
    /\ AllDone
    /\ \E w, v \in Workers :
          /\ thread[w].op = "drop"
          /\ thread[v].op = "rename"
          /\ thread[v].exc = None
          /\ _make_key(thread[v].a) \in Registered(base)
    /\ \E k \in Registered(base) : ReferencedBy(base, k) # {}
    /\ View(Cache) # View(base)
    /\ \E o1, o2 \in Orders : SerialEnds(o1) # SerialEnds(o2)

\* C4: no caller sees a rename half done.  With a rename of a registered
\* old to an unregistered new in the same schema running concurrently,
\* contains(database, schema) on that schema, known before, returns true,
\* and get_relations on that schema returns the renamed relation under its
\* old or its new name.
C4_NoPartialRenameObserved ==
    \A w, v \in Workers :
        (/\ AllDone
         /\ thread[v].op = "rename"
         /\ _make_key(thread[v].a) \in Registered(base)
         /\ _make_key(thread[v].b) \notin Registered(base)
         /\ SchemaOf(_make_key(thread[v].a)) = SchemaOf(_make_key(thread[v].b))
         /\ SchemaOf(_make_key(thread[v].a)) \in base.schemas
         /\ SchemaOf(_make_key(thread[w].a)) = SchemaOf(_make_key(thread[v].a)))
        => /\ thread[w].op = "contains" => thread[w].ret.bool = TRUE
           /\ thread[w].op = "get_relations" =>
                 \E r \in thread[w].ret.rels :
                    _make_key(r) \in {_make_key(thread[v].a), _make_key(thread[v].b)}

\* C5: an add_link call running concurrently with add, drop, rename or
\* remove_schema calls ends (edge recorded, skipped, or consistency error),
\* and leaves the cache, as in some serial order of the same calls.
C5_AddLinkAtomic ==
    (/\ AllDone
     /\ \E w \in Workers :
          /\ thread[w].op = "add_link"
          /\ \A v \in Workers \ {w} :
                thread[v].op \in {"add", "drop", "rename", "remove_schema"})
    => Serializable

-----------------------------------------------------------------------------
(* The lock.                                                               *)
(*                                                                         *)
(* Every thread makes one call of the cache, of any method.  A thread may  *)
(* take the lock before its call, as the adapters do while they fill the   *)
(* cache, and give it back after.  With the logger enabled, add and rename *)
(* call dump_graph, which takes the lock, before and after their own       *)
(* `with self.lock`.                                                       *)

\* dump_graph: every registered key with the keys that refer to it.
dump_graph(c) ==
    { Return(c, [k \in DOMAIN c.relations |->
                   DOMAIN c.objs[c.relations[k]].referenced_by]) }

\* The relations and the schema the threads call the cache with.
LockRelations == { Rel("db", "s", "a"), Rel("db", "s", "b") }

LockSchema == Rel("db", "s", None)

\* One call of every method that takes the lock, and of those that do not.
LockMenu ==
    { Call3("add", r, NoRel) : r \in LockRelations }
    \cup { Call3("drop", r, NoRel) : r \in LockRelations }
    \cup { Call3("rename", o, n) : o \in LockRelations, n \in LockRelations }
    \cup { Call3("add_link", r, d) : r \in LockRelations, d \in LockRelations }
    \cup { Call3(op, LockSchema, NoRel) : op \in {"contains", "remove_schema", "get_relations"} }
    \cup { Call3(op, NoRel, NoRel) : op \in {"dump_graph", "clear"} }

\* One thread fills the cache before the others start.
LockFill ==
    /\ mode = "serial"
    /\ nops < MaxLockSetup
    /\ \/ \E r \in LockRelations : Add(r)
       \/ \E r, d \in LockRelations : AddLink(r, d)

StartThreads ==
    /\ mode = "serial"
    /\ mode' = "concurrent"
    /\ base' = Cache
    /\ \E calls \in [Workers -> LockMenu], enabled \in BOOLEAN :
          thread' = [w \in Workers |->
                       [Idle EXCEPT !.pc = IF enabled /\ calls[w].op \in {"add", "rename"}
                                           THEN "log_before" ELSE "start",
                                    !.op = calls[w].op,
                                    !.a = calls[w].a, !.b = calls[w].b,
                                    !.log = enabled]]
    /\ last' = NoCall
    /\ pre' = EmptyCache
    /\ nops' = 0
    /\ opsClass' = "build"
    /\ UNCHANGED <<relations, objs, schemas, lock, runner, sched>>

\* `with self.cache.lock:` around the call.
HoldLock(w) ==
    /\ thread[w].pc \in {"start", "log_before"}
    /\ ~thread[w].held
    /\ Acquire(w)
    /\ lock' = w
    /\ Step(w, Cache, [thread[w] EXCEPT !.held = TRUE])

ReleaseHeld(w) ==
    /\ thread[w].pc = "done"
    /\ thread[w].held
    /\ lock' = None
    /\ Step(w, Cache, [thread[w] EXCEPT !.held = FALSE])

\* lazy_log('before ...', self.dump_graph)
LogBeforeStep(w) ==
    /\ thread[w].pc = "log_before"
    /\ Acquire(w)
    /\ lock' = Release(w)
    /\ Step(w, Cache, Goto(w, "start"))

\* lazy_log('after ...', self.dump_graph)
LogAfterStep(w) ==
    /\ thread[w].pc = "log_after"
    /\ Acquire(w)
    /\ lock' = Release(w)
    /\ Step(w, Cache, Goto(w, "done"))

DumpGraphStep(w) ==
    /\ At(w, "dump_graph", "start")
    /\ Acquire(w)
    /\ lock' = Release(w)
    /\ \E o \in dump_graph(Cache) : Step(w, o.c, Done(w, o.exc, o.ret))

ClearStep(w) ==
    /\ At(w, "clear", "start")
    /\ Acquire(w)
    /\ lock' = Release(w)
    /\ Step(w, clear(Cache), Done(w, None, None))

\* The steps of thread w.
ThreadNext(w) ==
    \/ HoldLock(w)
    \/ ReleaseHeld(w)
    \/ LogBeforeStep(w)
    \/ LogAfterStep(w)
    \/ DumpGraphStep(w)
    \/ ClearStep(w)
    \/ AddSchemaStep(w)
    \/ AddSetdefaultStep(w)
    \/ DropCollectStep(w)
    \/ DropRemoveStep(w)
    \/ RenameMoveStep(w)
    \/ RenameSetdefaultStep(w)
    \/ RenameRemoveSchemaStep(w)
    \/ RenameAddSchemaStep(w)
    \/ AddLinkCheckStep(w)
    \/ AddLinkLockedStep(w)
    \/ ContainsStep(w)
    \/ RemoveSchemaStep(w)
    \/ GetRelationsStep(w)

LockNext ==
    \/ LockFill
    \/ StartThreads
    \/ \E w \in Workers :
          \/ HoldLock(w)
          \/ ReleaseHeld(w)
          \/ LogBeforeStep(w)
          \/ LogAfterStep(w)
          \/ DumpGraphStep(w)
          \/ ClearStep(w)
          \/ AddSchemaStep(w)
          \/ AddSetdefaultStep(w)
          \/ DropCollectStep(w)
          \/ DropRemoveStep(w)
          \/ RenameMoveStep(w)
          \/ RenameSetdefaultStep(w)
          \/ RenameRemoveSchemaStep(w)
          \/ RenameAddSchemaStep(w)
          \/ AddLinkCheckStep(w)
          \/ AddLinkLockedStep(w)
          \/ ContainsStep(w)
          \/ RemoveSchemaStep(w)
          \/ GetRelationsStep(w)

\* Every step of a thread moves its position or changes whether it holds
\* the lock.
progress == [w \in Workers |-> <<thread[w].pc, thread[w].held>>]

\* A thread that can run is run: the interpreter switches between the
\* threads, and a thread waiting for the lock gets it once it stays free.
SpecLock ==
    /\ Init
    /\ [][LockNext]_vars
    /\ \A w \in Workers : WF_progress(ThreadNext(w))

\* C18: once the threads have started their calls, every call ends
\* (returns or raises) and the lock is free again, whatever the calls, also
\* when a thread took the lock before its call and its call takes it again.
C18_EveryCallReturns ==
    (mode = "concurrent") ~> (AllDone /\ lock = None)

\* A thread that had taken the lock renamed a registered relation with the
\* logger enabled (three more acquisitions) and still holds the lock, and
\* the other thread's call, one that takes the lock, has ended too.
C18_Witness ==
    /\ AllDone
    /\ \E w \in Workers :
          /\ thread[w].held
          /\ lock = w
          /\ thread[w].log
          /\ thread[w].op = "rename"
          /\ thread[w].exc = None
          /\ _make_key(thread[w].a) \in Registered(base)
          /\ \E v \in Workers \ {w} : thread[v].op \in {"drop", "dump_graph"}

-----------------------------------------------------------------------------
(* One attempt of a runner *)

cacheVars == <<relations, objs, schemas, last, pre, opsClass, nops,
               mode, base, thread, lock>>

\* A runner is made for a node; what the phases of its attempt will do is
\* fixed here.
NewRunner ==
    /\ runner.pc = "idle"
    /\ \E k \in RunnerKinds, e \in BOOLEAN, a, c, x, rl \in PhaseOutcomes :
          runner' = [IdleRunner EXCEPT !.pc = "ready", !.kind = k,
                                       !.ephemeral = e,
                                       !.acquire = a, !.compile = c,
                                       !.execute = x, !.release = rl]
    /\ UNCHANGED <<cacheVars, sched>>

\* do_skip is called before the runner is run, or between two runs.
DoSkip(cause) ==
    /\ runner.pc \in {"ready", "done"}
    /\ runner' = [do_skip(runner, cause) EXCEPT
                     !.pc = "ready", !.raised = None, !.result = NoResult,
                     !.trace = <<>>,
                     !.given_ephemeral_cause = @ \/ cause = "ephemeral"]
    /\ runner' # runner
    /\ UNCHANGED <<cacheVars, sched>>

\* run_with_hooks leaves self.skip and self.skip_cause alone: a runner that
\* was run may be run again.
RunWithHooks ==
    /\ runner.pc \in {"ready", "done"}
    /\ LET end == run_with_hooks(runner)
       IN  runner' = [runner EXCEPT !.pc = "done", !.raised = end.raised,
                                    !.result = end.result, !.trace = end.trace]
    /\ UNCHANGED <<cacheVars, sched>>

RunNext ==
    \/ NewRunner
    \/ \E cause \in SkipCauses : DoSkip(cause)
    \/ RunWithHooks

SpecRun == Init /\ [][RunNext]_vars

\* The phase whose exception safe_run's except clause has to deal with, or
\* None when compile and execute raised nothing.
FailedPhase(r) ==
    IF r.acquire # "ok" THEN "acquire"
    ELSE IF r.compile # "ok" THEN "compile"
    ELSE IF ~r.ephemeral /\ r.execute # "ok" THEN "execute"
    ELSE None

Attempted == runner.pc = "done" /\ ~runner.skip

\* C19: whatever acquiring the connection, compile, execute and releasing
\* the connection do (succeed, or raise an exception of any class), the
\* run_with_hooks call of a runner that is not skipped raises nothing and
\* returns a result.
C19_NoExceptionLeavesAttempt ==
    Attempted => runner.raised = None /\ runner.result # NoResult

\* C20: when releasing the connection fails in an attempt, the call returns
\* an error result; it carries the text of the compile or execute error
\* when there was one, and the text of the release failure when there was
\* none, an ephemeral node that was only compiled included.
C20_ReleaseFailureReportedIfFirst ==
    (Attempted /\ runner.release # "ok")
    => /\ runner.raised = None
       /\ Lower(runner.result.status) = "error"
       /\ runner.result.error =
             IF FailedPhase(runner) # None THEN StrOf(FailedPhase(runner))
             ELSE StrOf("release")

\* How often a call occurs in a trace, and where.
Count(trace, call) ==
    Cardinality({ i \in DOMAIN trace : trace[i] = call })

Positions(trace, calls) == { i \in DOMAIN trace : trace[i] \in calls }

\* C21: an attempt calls release_connection exactly once, and after
\* acquire_connection, compile and execute have returned or raised: when
\* the task ran, when it is ephemeral and stopped after compile, and when
\* acquiring the connection, compile or execute raised.
C21_ReleasedExactlyOnce ==
    Attempted
    => /\ Count(runner.trace, "release_connection") = 1
       /\ \A i \in Positions(runner.trace, {"release_connection"}),
             j \in Positions(runner.trace,
                             {"acquire_connection", "compile", "execute"}) :
             j < i

\* An attempt whose compile raised, and one whose execute raised.
C21_Witness ==
    /\ Attempted
    /\ FailedPhase(runner) = "compile"
    /\ Count(runner.trace, "release_connection") = 1

C21_WitnessEphemeral ==
    /\ Attempted
    /\ runner.ephemeral
    /\ FailedPhase(runner) = None
    /\ runner.trace = <<"acquire_connection", "compile", "release_connection">>

\* A run_with_hooks call of a runner that do_skip was called on.
Skipped == runner.pc = "done" /\ runner.skip

NoPhaseCalled ==
    Positions(runner.trace, {"before_execute", "acquire_connection",
                             "compile", "execute", "after_execute",
                             "release_connection"}) = {}

C22_WitnessFreshness ==
    /\ Skipped
    /\ runner.kind = "freshness"
    /\ runner.raised = "RuntimeException"

\* C23: BaseRunner.on_skip, which every class but FreshnessRunner inherits,
\* returns a skip result.  For a runner whose node is not ephemeral the
\* result carries an error iff the stored skip cause is a result whose node
\* is an ephemeral model; with no cause, or a cause whose node is not
\* ephemeral (or missing), it carries none.  For a runner whose node is
\* ephemeral it never carries one.
C23_SkipErrorIffEphemeralCause ==
    (Skipped /\ runner.kind # "freshness")
    => /\ runner.raised = None
       /\ runner.result.skip
       /\ (runner.result.error # None)
             <=> (~runner.ephemeral /\ runner.skip_cause = "ephemeral")

C23_Witness ==
    /\ Skipped
    /\ runner.kind = "model"
    /\ ~runner.ephemeral
    /\ runner.skip_cause = "ephemeral"
    /\ runner.result.error # None

C23_WitnessPlain ==
    /\ Skipped
    /\ runner.kind = "test"
    /\ ~runner.ephemeral
    /\ runner.skip_cause = "not_ephemeral"
    /\ runner.result.error = None

C23_WitnessEphemeralNode ==
    /\ Skipped
    /\ runner.ephemeral
    /\ runner.skip_cause = "ephemeral"
    /\ runner.result.skip
    /\ runner.result.error = None

\* No phase of the attempt raises a class that `except Exception` lets
\* through.
OnlyExceptions(r) ==
    \A f \in {"acquire", "compile", "execute", "release"} :
       r[f] = "ok" \/ IsException(r[f])

\* An error was recorded for the attempt: acquiring the connection, compile
\* or execute raised, or releasing the connection did.
ErrorRecorded(r) == FailedPhase(r) # None \/ r.release # "ok"

\* C25: an attempt whose phases succeed or raise an Exception returns one
\* result.  It is an error result (status
\* ERROR, an error text, no timing) iff an error was recorded for the
\* attempt; otherwise an ephemeral result (no status, no error, the compile
\* timing only) iff the node is ephemeral; otherwise the result of execute
\* with the compile and execute timings.
C25_ResultKindFollowsAttempt ==
    (Attempted /\ OnlyExceptions(runner))
    => /\ runner.raised = None
       /\ runner.result # NoResult
       /\ IF ErrorRecorded(runner)
          THEN /\ Lower(runner.result.status) = "error"
               /\ runner.result.error # None
               /\ runner.result.timing = <<>>
          ELSE IF runner.ephemeral
          THEN /\ runner.result.status = None
               /\ runner.result.error = None
               /\ runner.result.timing = <<"compile">>
          ELSE /\ runner.result.status = self_execute_result(runner).status
               /\ runner.result.error = None
               /\ runner.result.timing = <<"compile", "execute">>

\* The hooks and phases of a trace, in the order they were called.
IsPhase(call) ==
    call \in {"before_execute", "compile", "execute", "after_execute"}

Phases(trace) == SelectSeq(trace, IsPhase)

\* compile is called once the connection is acquired, execute once compile
\* returned.
PhasesDue(r) ==
    IF r.acquire # "ok" THEN <<>>
    ELSE IF r.compile # "ok" \/ r.ephemeral THEN <<"compile">>
    ELSE <<"compile", "execute">>

\* C26: run_with_hooks of a runner that is not skipped and whose node is not
\* ephemeral calls before_execute, compile, execute (if compile returned)
\* and after_execute, each once and in this order, also when compile or
\* execute raised an Exception; for an ephemeral node it calls compile only.
C26_HooksInOrder ==
    (Attempted /\ OnlyExceptions(runner))
    => Phases(runner.trace) =
          IF runner.ephemeral THEN PhasesDue(runner)
          ELSE <<"before_execute">> \o PhasesDue(runner)
                  \o <<"after_execute">>

-----------------------------------------------------------------------------
(* A run of the scheduler *)

runVars == <<cacheVars, runner>>

\* The graph is compiled and its queue made; eph are the ephemeral models.
CompileGraph(edges, eph) ==
    /\ sched.pc = "idle"
    /\ sched' = [sched EXCEPT !.pc = "running", !.edges = edges, !.eph = eph,
                              !.queue = as_graph_queue(edges)]
    /\ UNCHANGED runVars

\* The runner of task n, as its class makes it.
RunnerOf(n) ==
    [IdleRunner EXCEPT !.kind = "model", !.ephemeral = n \in sched.eph]

\* A free worker takes a task from the queue; the task's runner is marked
\* with do_skip when the task was marked for skipping.
Dispatch(w) ==
    /\ sched.pc = "running"
    /\ sched.running[w] = NoTask
    /\ \E o \in queue_get(sched.queue) :
          /\ o.got # Empty
          /\ LET n == o.got
                 r == IF sched.marks[n] # Unmarked
                      THEN do_skip(RunnerOf(n), sched.marks[n])
                      ELSE RunnerOf(n)
             IN  sched' = [sched EXCEPT
                     !.queue = o.q,
                     !.got[w] = n,
                     !.running[w] = [task |-> n, skip |-> r.skip,
                                     skip_cause |-> r.skip_cause]]
    /\ UNCHANGED runVars

\* A free worker finds no task ready.
GetEmpty(w) ==
    /\ sched.pc = "running"
    /\ sched.running[w] = NoTask
    /\ ~queue_empty(sched.queue)
    /\ \E o \in queue_get(sched.queue) :
          /\ o.got = Empty
          /\ sched' = [sched EXCEPT !.queue = o.q, !.got[w] = Empty]
    /\ sched' # sched
    /\ UNCHANGED runVars

\* The worker runs the task's runner.  A result that carries an error marks
\* the task's dependents; then the task is marked done.  When the call
\* raises there is no result to handle.
Finish(w) ==
    /\ sched.pc = "running"
    /\ sched.running[w] # NoTask
    /\ \E a, c, x, rl \in SchedOutcomes :
          LET n   == sched.running[w].task
              r   == [RunnerOf(n) EXCEPT
                         !.acquire = a, !.compile = c, !.execute = x,
                         !.release = rl,
                         !.skip = sched.running[w].skip,
                         !.skip_cause = sched.running[w].skip_cause]
              end == run_with_hooks(r)
          IN  IF end.raised # None
              THEN sched' = [sched EXCEPT !.running[w] = NoTask,
                                          !.raised[n] = end.raised,
                                          !.traces[n] = end.trace]
              ELSE sched' = [sched EXCEPT
                      !.running[w] = NoTask,
                      !.results[n] = end.result,
                      !.traces[n] = end.trace,
                      !.marks = IF end.result.error # None
                                THEN _mark_dependent_errors(
                                         @, sched.edges, n,
                                         CauseOf(sched.eph, n))
                                ELSE @,
                      !.queue = mark_done(@, n)]
    /\ UNCHANGED runVars

SchedNext ==
    \/ \E edges \in Graphs, eph \in SUBSET Tasks : CompileGraph(edges, eph)
    \/ \E w \in Workers : Dispatch(w)
    \/ \E w \in Workers : GetEmpty(w)
    \/ \E w \in Workers : Finish(w)

SpecSched == Init /\ [][SchedNext]_vars

\* Task n has a reported result.
Reported(n) == sched.results[n] # NoResult

\* The attempt of task n returned an error result for a failed compile.
CompileFailed(n) ==
    /\ Reported(n)
    /\ ~sched.results[n].skip
    /\ sched.results[n].error = StrOf("compile")

SkipWithError(n) ==
    /\ Reported(n)
    /\ sched.results[n].skip
    /\ sched.results[n].error # None

\* The tasks on the ways from f to t.
Between(f, t) ==
    Ancestors(sched.edges, t) \cap Descendants(sched.edges, f)

\* t depends on f through a chain of ephemeral models and on nothing else.
EphemeralChain(f, t) ==
    /\ f \in Ancestors(sched.edges, t)
    /\ Ancestors(sched.edges, t) = {f} \cup Between(f, t)
    /\ Between(f, t) # {}
    /\ Between(f, t) \subseteq sched.eph
    /\ t \notin sched.eph

\* C24 as stated: in a chain F -> E1 -> ... -> En -> T in which F failed to
\* compile, every Ei is ephemeral and T is not, the result reported for T
\* is a skip that carries an error.
C24_EphemeralChainSkipsWithErrorAsStated ==
    \A f, t \in Tasks :
       (EphemeralChain(f, t) /\ CompileFailed(f) /\ Reported(t))
       => SkipWithError(t)

\* C24, amended: that holds when F is an ephemeral model itself.
C24_EphemeralChainSkipsWithError ==
    \A f, t \in Tasks :
       (EphemeralChain(f, t) /\ f \in sched.eph /\ CompileFailed(f)
          /\ Reported(t))
       => SkipWithError(t)

C24_Witness ==
    /\ sched.edges = ChainGraph
    /\ EphemeralChain(1, MaxTasks)
    /\ 1 \in sched.eph
    /\ CompileFailed(1)
    /\ SkipWithError(MaxTasks)

\* The tasks marked done, and the tasks handed out by get.
MarkedDone == Tasks \ sched.queue.nodes

HandedOut == sched.queue.in_progress \cup MarkedDone

\* The graphs in which every two tasks depend on one another.
IsChain(edges) == \A n \in Tasks : Ancestors(edges, n) = 1 .. n - 1

\* C27: the queue hands out a task only after all its declared dependencies
\* were marked done.  In a dependency chain the tasks are handed out in
\* dependency order, and a get made while a task is handed out and not
\* marked done finds no task (Empty).  The queue reports empty only after
\* the last task was marked done.
C27_QueueDependencyOrder ==
    sched.pc = "running"
    => /\ \A n \in HandedOut : Dependencies(sched.edges, n) \subseteq MarkedDone
       /\ IsChain(sched.edges)
            => /\ \A n \in HandedOut : 1 .. n - 1 \subseteq MarkedDone
               /\ sched.queue.in_progress # {}
                    => \A o \in queue_get(sched.queue) : o.got = Empty
       /\ queue_empty(sched.queue) <=> MarkedDone = Tasks

\* In the graph of test__dependency_list model_1 is marked done, model_2
\* is handed out and the other worker's get found no task.
C27_Witness ==
    /\ sched.edges = TestGraph
    /\ IsChain(sched.edges)
    /\ MarkedDone = {1}
    /\ sched.queue.in_progress = {2}
    /\ \E w \in Workers : sched.got[w] = Empty

C27_WitnessEmpty ==
    /\ sched.pc = "running"
    /\ sched.edges = TestGraph
    /\ queue_empty(sched.queue)

\* Task n ended with an error: its reported result carries one.
EndedWithError(n) == Reported(n) /\ sched.results[n].error # None

\* The worker that task n was handed to and that has not finished it.
RunningOn(w, n) == sched.running[w].task = n

\* C28: once a task has ended with an error, every task downstream of it is
\* marked for skipping before it is dispatched, its runner is marked with
\* do_skip when it is dispatched, it is never compiled or executed, and
\* the result it ends with is a skip result.
C28_DependentsOfFailedAreSkipped ==
    \A f \in Tasks : EndedWithError(f) =>
       \A d \in Descendants(sched.edges, f) :
          /\ d \in sched.queue.nodes \ sched.queue.in_progress
                => sched.marks[d] # Unmarked
          /\ \A w \in Workers : RunningOn(w, d) => sched.running[w].skip
          /\ Positions(sched.traces[d],
                       {"acquire_connection", "compile", "execute"}) = {}
          /\ sched.raised[d] = None
          /\ Reported(d) => sched.results[d].skip

\* A task failed, the next one downstream was skipped, and the one after
\* that is handed to a worker, marked.
C28_Witness ==
    /\ sched.edges = ChainGraph
    /\ EndedWithError(1)
    /\ ~sched.results[1].skip
    /\ Reported(2) /\ sched.results[2].skip
    /\ \E w \in Workers : RunningOn(w, 3) /\ sched.running[w].skip

\* The workers are scheduled fairly: a worker that can take a task or
\* finish its task does so.
SpecSchedFair ==
    /\ Init
    /\ [][SchedNext]_vars
    /\ \A w \in Workers : WF_sched(Dispatch(w) \/ Finish(w))

AllReported == \A n \in Tasks : Reported(n)

\* No task upstream of n has ended with an error.
NoAncestorFailed(n) ==
    \A f \in Ancestors(sched.edges, n) : ~EndedWithError(f)

\* C29: every task of the graph gets a result in the end, and the result of
\* a task none of whose ancestors ended with an error is not a skip result:
\* the task was run, whatever tasks on other branches did.
C29_EveryTaskEnds ==
    /\ (sched.pc = "running") ~> AllReported
    /\ [](\A n \in Tasks :
            (Reported(n) /\ NoAncestorFailed(n)) => ~sched.results[n].skip)

-----------------------------------------------------------------------------
(* Attempts of model runners on the cache *)

\* The classes whose execute is ModelRunner.execute.
ModelKinds == { "model", "seed", "snapshot" }

\* One attempt of a model, seed or snapshot runner: run_with_hooks, whose
\* execute phase, when it is reached, is ModelRunner.execute on the cache.
ModelAttempt ==
    /\ mode = "serial"
    /\ nops < MaxAttempts
    /\ \E k \in ModelKinds, e \in BOOLEAN, a, cp, rl \in SchedOutcomes,
          m \in Materializations :
          \* what execute would meet is left open only when it is reached
          /\ (e \/ a # "ok" \/ cp # "ok") => m = NoMaterialization
          /\ LET r0  == [IdleRunner EXCEPT !.kind = k, !.ephemeral = e,
                                           !.acquire = a, !.compile = cp,
                                           !.release = rl,
                                           !.materialization = m]
                 x   == ModelRunner_execute(r0, Cache, m)
                 r   == [r0 EXCEPT !.execute = IF x.raised = None THEN "ok"
                                               ELSE x.raised]
                 end == run_with_hooks(r)
                 executed == Positions(end.trace, {"execute"}) # {}
                 c   == IF executed THEN x.c ELSE Cache
             IN  /\ runner' = [r EXCEPT !.pc = "done", !.raised = end.raised,
                                        !.result = end.result,
                                        !.trace = end.trace,
                                        !.added = IF executed THEN x.added
                                                  ELSE <<>>]
                 /\ relations' = c.relations
                 /\ objs' = c.objs
                 /\ schemas' = c.schemas
    /\ pre' = Cache
    /\ nops' = nops + 1
    /\ UNCHANGED <<last, opsClass, mode, base, thread, lock, sched>>

ModelNext == ModelAttempt

SpecModel == Init /\ [][ModelNext]_vars

\* The execute phase of the attempt was reached, and it raised.
Executed == Positions(runner.trace, {"execute"}) # {}

ExecuteFailed == Executed /\ runner.execute # "ok"

ModelAttempted == runner.pc = "done" /\ runner.kind \in ModelKinds

\* The materialization and the adapter's hooks around it raised nothing.
Materialized(m) ==
    /\ m.macro /\ m.config
    /\ m.pre_hook = "ok" /\ m.generator = "ok" /\ m.post_hook = "ok"

\* The relations a return value stands for when it is valid: the model's
\* own relation for a str, the list under 'relations' for a dict.
ValidRelations(v) ==
    IF v.type = "str" THEN { <<ModelRelation>> }
    ELSE IF v.type = "dict" /\ v.has_key /\ v.is_list
            /\ \A i \in DOMAIN v.items : v.items[i] \in MaterializedRelations
    THEN { v.items }
    ELSE {}

RegisteredKeys(rels) == { _make_key(rels[i]) : i \in DOMAIN rels }

\* C30 as stated: an attempt passes relations to cache_added only when the
\* materialization ended without raising and the relations it returned
\* are valid, and then all of them; an attempt whose compile or execute
\* fails, and an ephemeral attempt, registers none.
C30_RegistersOnlyOnSuccessAsStated ==
    ModelAttempted
    => /\ runner.added # <<>>
            => /\ Materialized(runner.materialization)
               /\ runner.added \in ValidRelations(runner.materialization.returns)
       /\ (FailedPhase(runner) # None \/ ExecuteFailed \/ runner.ephemeral)
            => /\ runner.added = <<>>
               /\ Cache = pre

\* C30, amended: execute registers the relations exactly when it got as far
\* as the materialization's valid return value; when it fails after that
\* (_build_run_model_result finds no 'main' result) they stay registered.
C30_RegistersValidatedRelations ==
    ModelAttempted
    => LET m == runner.materialization
       IN  IF Executed /\ Materialized(m) /\ ValidRelations(m.returns) # {}
           THEN /\ runner.added \in ValidRelations(m.returns)
                /\ RegisteredKeys(runner.added) \subseteq Registered(Cache)
                /\ Registered(Cache) =
                      Registered(pre) \cup RegisteredKeys(runner.added)
           ELSE /\ runner.added = <<>>
                /\ Cache = pre

\* Two relations were returned and registered.
C30_Witness ==
    /\ ModelAttempted
    /\ Len(runner.added) = 2
    /\ runner.added[1] # runner.added[2]
    /\ runner.result.error = None
    /\ RegisteredKeys(runner.added) \subseteq Registered(Cache)

C30_WitnessRefused ==
    /\ ModelAttempted
    /\ Executed
    /\ Materialized(runner.materialization)
    /\ Len(runner.materialization.returns.items) = 2
    /\ ValidRelations(runner.materialization.returns) = {}
    /\ runner.added = <<>>

-----------------------------------------------------------------------------
(* Edges of the cache *)

\* The edges an entry holds to keys no entry is registered under.
Dangling(c) ==
    { <<k, d>> \in Registered(c) \X Keys :
        d \in ReferencedBy(c, k) /\ d \notin Registered(c) }

\* C32: after any sequence of add, add_link, drop and rename calls, self-links
\* and cyclic links included, every key in an entry's referenced_by is the key
\* of a registered entry: the cache holds no dangling edge.
C32_NoDanglingEdge ==
    Dangling(Cache) = {}


\* C33: a call of add_link or rename that raises a consistency error leaves
\* relations, every referenced_by and the known schemas exactly as they were
\* before the call, also when the error is raised while referenced_by keys
\* are rewritten after old's entry was removed: a failed rename loses no
\* entry.
C33_FailedCallChangesNothing ==
    (/\ last.op \in {"add_link", "rename"}
     /\ last.exc = InternalException)
    => Cache = pre


\* C34: in every state reachable by add, add_link, drop and rename calls,
\* add_link(ref, dep) with ref and dep both registered raises nothing and
\* records the edge: afterwards ref's referenced_by holds dep's key, with
\* dep's entry under it.
C34_AddLinkOfRegisteredRecordsEdge ==
    (/\ last.op = "add_link"
     /\ LastKeyA \in Registered(pre)
     /\ LastKeyB \in Registered(pre))
    => /\ last.exc = None
       /\ LastKeyB \in ReferencedBy(Cache, LastKeyA)
       /\ objs[relations[LastKeyA]].referenced_by[LastKeyB] = relations[LastKeyB]


\* The sets of keys a drop of k can remove from c, one per outcome.
DropRemoves(c, k) ==
    { Registered(c) \ Registered(o.c) : o \in drop(c, k) }

\* S with old's key replaced by new's.
Renamed(S, old, new) ==
    IF old \in S THEN (S \ {old}) \cup {new} ELSE S

\* C35: after a rename that moved a registered old to new, the entry under
\* new's key has the referenced_by set the entry under old's key had, and
\* drop(new) removes what drop(old) would have removed before the rename,
\* with old's key replaced by new's.
C35_RenameKeepsDependents ==
    (/\ last.op = "rename"
     /\ last.exc = None
     /\ LastKeyA \in Registered(pre))
    => /\ ReferencedBy(Cache, LastKeyB) = ReferencedBy(pre, LastKeyA)
       /\ DropRemoves(Cache, LastKeyB)
             = { Renamed(S, LastKeyA, LastKeyB) : S \in DropRemoves(pre, LastKeyA) }

\* A relation with a dependent was renamed into another schema, and a drop
\* of the new name removes both, as a drop of the old name would have.
C35_Witness ==
    /\ last.op = "rename"
    /\ last.exc = None
    /\ LastKeyA \in Registered(pre)
    /\ SchemaOf(LastKeyA) # SchemaOf(LastKeyB)
    /\ ReferencedBy(pre, LastKeyA) # {}
    /\ ReferencedBy(pre, LastKeyA) = Registered(pre) \ {LastKeyA}
    /\ DropRemoves(pre, LastKeyA) = { Registered(pre) }
    /\ DropRemoves(Cache, LastKeyB) = { Registered(Cache) }
    /\ Cardinality(Registered(Cache)) = 2

-----------------------------------------------------------------------------
(* Repeated do_skip calls *)

\* C36: the plain-or-error decision of a skip does not depend on the order
\* of the do_skip calls: once a do_skip call on a runner (of a node that is
\* not ephemeral, of a class that inherits on_skip) has carried the result of
\* a failed ephemeral node, the skip result carries an error, also when
\* do_skip was called again afterwards with no cause or with the result of a
\* node that is not ephemeral.
C36_SkipDecisionIgnoresOrder ==
    (/\ Skipped
     /\ runner.kind # "freshness"
     /\ ~runner.ephemeral
     /\ runner.given_ephemeral_cause)
    => /\ runner.result.skip
       /\ runner.result.error # None

-----------------------------------------------------------------------------
(* The SQL adapter's drop_relation and rename_relation                     *)
(* (core/dbt/adapters/sql/impl.py) on the cache.  cache_dropped and        *)
(* cache_renamed belong to the base adapter: they drop and rename in the   *)
(* relation cache.                                                         *)

\* What execute_macro does with the statement: it runs, or the database
\* refuses it.
DatabaseException == "DatabaseException"

StatementOutcomes == { "ok", DatabaseException }

\* relation.type of the relation to drop: a type, or None.
RelationTypes == { "table", "view", None }

cache_dropped(c, relation) == drop(c, relation)

cache_renamed(c, from_relation, to_relation) == rename(c, from_relation, to_relation)

\* self.execute_macro(...), called with the cache as o left it.
execute_macro(o, statement) ==
    IF o.exc # None THEN o
    ELSE IF statement = "ok" THEN Ok(o.c)
    ELSE Raise(o.c, statement)

drop_relation(c, relation, type, statement) ==
    IF type = None
    THEN { Raise(c, "CompilationException") }
    ELSE { execute_macro(o, statement) : o \in cache_dropped(c, relation) }

rename_relation(c, from_relation, to_relation, statement) ==
    { execute_macro(o, statement) :
        o \in cache_renamed(c, from_relation, to_relation) }

DropRelation(relation, type, statement) ==
    Call("drop_relation", relation, NoRel,
         drop_relation(Cache, relation, type, statement))

RenameRelation(from_relation, to_relation, statement) ==
    /\ HeapRoom(to_relation)
    /\ Call("rename_relation", from_relation, to_relation,
            rename_relation(Cache, from_relation, to_relation, statement))

AdapterNext ==
    /\ nops < MaxAdapterOps
    /\ \/ \E r \in KeyRelations : Add(r)
       \/ \E r, d \in KeyRelations : AddLink(r, d)
       \/ \E r \in KeyRelations, t \in RelationTypes, st \in StatementOutcomes :
             DropRelation(r, t, st)
       \/ \E o, n \in KeyRelations, st \in StatementOutcomes :
             RenameRelation(o, n, st)

SpecAdapter == Init /\ [][AdapterNext]_vars

\* C37: when the drop or rename statement that drop_relation or
\* rename_relation issues fails, the cache is left as it was before the
\* call: the cache reflects a drop or a rename only when the statement
\* succeeded.
C37_FailedStatementLeavesCache ==
    (/\ last.op \in {"drop_relation", "rename_relation"}
     /\ last.exc = DatabaseException)
    => Cache = pre

-----------------------------------------------------------------------------
(* Attempts of freshness runners *)

\* A FreshnessRunner is made for a source and run once.
FreshnessAttempt ==
    /\ runner.pc = "idle"
    /\ \E l \in {"loaded_at", None}, w, e \in Times \cup {NoTime},
          cf \in SchedOutcomes, age \in Ages, rl \in SchedOutcomes :
          LET r0  == [IdleRunner EXCEPT
                         !.kind = "freshness", !.release = rl,
                         !.source = Source(l, FreshnessThreshold(w, e), cf, age)]
              x   == FreshnessRunner_execute(r0)
              r   == [r0 EXCEPT !.execute = IF x.raised = None THEN "ok"
                                            ELSE x.raised]
              end == run_with_hooks(r)
          IN  runner' = [r EXCEPT !.pc = "done", !.raised = end.raised,
                                  !.result = end.result, !.trace = end.trace]
    /\ UNCHANGED <<cacheVars, sched>>

FreshnessNext == FreshnessAttempt

SpecFresh == Init /\ [][FreshnessNext]_vars

\* The attempt's execute returned a freshness result.
FreshnessComputed ==
    /\ runner.pc = "done"
    /\ runner.kind = "freshness"
    /\ runner.raised = None
    /\ runner.result.kind = "freshness"

\* The length of a threshold in seconds.
Duration(t) ==
    t.count * (CASE t.period = "minute" -> 60
                 [] t.period = "hour"   -> 60 * 60
                 [] t.period = "day"    -> 24 * 60 * 60)

\* C31: the freshness status of a source follows from its age in seconds and
\* its thresholds: error when error_after is set and the age is strictly
\* greater than its duration; otherwise warn when warn_after is set and the
\* age is strictly greater than its duration; otherwise pass.  With
\* warn_after 10 hours and error_after 18 hours, ages of 2 hours, 12 hours
\* and more than 18 hours give pass, warn and error.
C31_FreshnessStatusFromAge ==
    FreshnessComputed
    => LET f   == runner.source.freshness
           age == runner.source.age
       IN  /\ runner.result.status =
                 IF f.error_after # NoTime /\ age > Duration(f.error_after)
                 THEN "error"
                 ELSE IF f.warn_after # NoTime /\ age > Duration(f.warn_after)
                 THEN "warn"
                 ELSE "pass"
           /\ (f = FreshnessThreshold(Time(10, "hour"), Time(18, "hour")))
                 => /\ age = 2 * 3600 => runner.result.status = "pass"
                    /\ age = 12 * 3600 => runner.result.status = "warn"
                    /\ age > 18 * 3600 => runner.result.status = "error"

\* An age exactly at the error threshold and past the warn threshold gave
\* warn.
C31_Witness ==
    /\ FreshnessComputed
    /\ runner.source.freshness.error_after # NoTime
    /\ runner.source.freshness.warn_after # NoTime
    /\ runner.source.age = Duration(runner.source.freshness.error_after)
    /\ runner.source.age > Duration(runner.source.freshness.warn_after)
    /\ runner.result.status = "warn"

\* The documented example: 12 hours old with warn_after 10 hours and
\* error_after 18 hours.
C31_WitnessExample ==
    /\ FreshnessComputed
    /\ runner.source.freshness = FreshnessThreshold(Time(10, "hour"), Time(18, "hour"))
    /\ runner.source.age = 12 * 3600
    /\ runner.result.status = "warn"

-----------------------------------------------------------------------------
(* Attempts of test runners *)

\* A TestRunner is made for a test and run once.
TestAttempt ==
    /\ runner.pc = "idle"
    /\ \E q \in PhaseOutcomes, n \in 1..MaxRows, v \in FailedRows,
          sv \in Severities, we \in BOOLEAN,
          a, cp, rl \in SchedOutcomes :
          LET r0  == [IdleRunner EXCEPT
                         !.kind = "test", !.acquire = a, !.compile = cp,
                         !.release = rl, !.test = Test(q, n, v, sv, we)]
              x   == TestRunner_execute(r0)
              r   == [r0 EXCEPT !.execute = IF x.raised = None THEN "ok"
                                            ELSE x.raised]
              end == run_with_hooks(r)
          IN  runner' = [r EXCEPT !.pc = "done", !.raised = end.raised,
                                  !.result = end.result, !.trace = end.trace]
    /\ UNCHANGED <<cacheVars, sched>>

TestNext == TestAttempt

SpecTest == Init /\ [][TestNext]_vars

\* The attempt of a test whose query returned a table, in which the
\* connection was acquired and released and compile raised nothing.
TestQueried ==
    /\ runner.pc = "done"
    /\ runner.kind = "test"
    /\ runner.acquire = "ok" /\ runner.compile = "ok" /\ runner.release = "ok"
    /\ runner.test.query = "ok"

\* C38: a test is classified by the failure count its query returns: 0
\* gives a result with neither fail nor warn set; a count that is not 0
\* gives fail when the test's severity is ERROR (in any letter case) or
\* WARN_ERROR is set, and warn otherwise, never both; a query that returns
\* more than one row raises, and the attempt ends as an error result.
C38_TestClassifiedByFailureCount ==
    TestQueried
    => LET t == runner.test
           res == runner.result
       IN  /\ runner.raised = None
           /\ ~(res.fail /\ res.warn)
           /\ IF t.rows > 1
              THEN /\ res.status = "ERROR"
                   /\ res.error # None
                   /\ ~res.fail /\ ~res.warn
              ELSE /\ res.error = None
                   /\ res.status = t.failed_rows
                   /\ IF t.failed_rows = "0"
                      THEN ~res.fail /\ ~res.warn
                      ELSE IF t.config_severity \in {"error", "ERROR"}
                              \/ t.warn_error
                      THEN res.fail /\ ~res.warn
                      ELSE res.warn /\ ~res.fail

\* A failing test of severity 'error', written in lower case, without
\* WARN_ERROR: the returned result has fail set.
C38_Witness ==
    /\ TestQueried
    /\ runner.test.rows = 1
    /\ runner.test.failed_rows = "2"
    /\ runner.test.config_severity = "error"
    /\ ~runner.test.warn_error
    /\ runner.result.fail
    /\ runner.result.status = "2"

\* A failing test of severity warn with WARN_ERROR set fails; without it
\* warns.
C38_WitnessWarn ==
    /\ TestQueried
    /\ runner.test.rows = 1
    /\ runner.test.failed_rows = "1"
    /\ runner.test.config_severity = "Warn"
    /\ ~runner.test.warn_error
    /\ runner.result.warn

\* Two rows: an error result.
C38_WitnessRows ==
    /\ TestQueried
    /\ runner.test.rows = 2
    /\ runner.result.status = "ERROR"
    /\ runner.result.error = StrOf("execute")

=============================================================================
